---- MODULE Spec2Model ----
(***************************************************************************)
(* A model of the go-vnc client protocol engine: the handshake of          *)
(* ClientWithContext / handshakeWithContext, security-type negotiation,    *)
(* the reader task (mainLoop) and the client-message writers.              *)
(*                                                                         *)
(* Specifications:                                                         *)
(*   SpecHs    the handshake, driven by the bytes a server may send        *)
(*   SpecNeg   AuthRegistry.NegotiateAuth as a function of its inputs      *)
(*   SpecRead  the reader task, its sink, cancellation and Close           *)
(*   SpecWrite concurrent client-message calls on one connection           *)
(*   SpecMsg   the reader task with the stream byte by byte                *)
(*   SpecMsgLive  SpecMsg with the reader goroutine scheduled fairly       *)
(*   SpecSess  client-message calls beside the reader task                 *)
(*   SpecPf    writePixelFormat and readPixelFormat, back to back          *)
(*   SpecPx    PixelReader: bytes to pixel value to colour                 *)
(*   SpecHx    HextileEncoding.Read, tile by tile                          *)
(*   SpecLock  accesses to the session fields and c.mu                     *)
(*   SpecClose Close called by several goroutines                          *)
(*   SpecHsLive  the handshake against a server that may fall silent       *)
(*   SpecDes   EncryptVNCChallenge on two passwords and a challenge        *)
(*   SpecPtr   PointerEvent beside DesktopSize updates                     *)
(*   SpecEdge  rectangles at the edge of a 1920x1080 framebuffer           *)
(*   SpecOpt   ClientWithOptions with and without a connect timeout        *)
(*   SpecFmt   SetPixelFormat beside a server sending Raw rectangles       *)
(*   SpecCut   the reader and ServerCutText messages, empty ones too       *)
(***************************************************************************)
EXTENDS Integers, Sequences, FiniteSets, TLC

VARIABLES
    \* ---- configuration and handshake (client.go) ----
    cfg,          \* *ClientConfig: [nil, auth, registry, exclusive]
    pc,           \* position of handshakeWithContext / ClientWithContext
    visited,      \* history: handshake states entered, in order
    hsErr,        \* error chain returned by the handshake, outermost first
    hsWhy,        \* history: what made the handshake fail
    returned,     \* what ClientWithContext gave the caller
    hsOut,        \* what the handshake wrote to the stream, in order
    loc,          \* locals of handshakeWithContext: [pvIn, secTypes, auth,
                  \*   numSecurityTypes n, secResult, reason, w, h, nameLen]
    \* ---- session state (ClientConn fields) ----
    fbW, fbH, pixelFormat, desktopName,
    \* ---- connection ----
    cancelled,    \* c.ctx is done
    connClosed,   \* c.c.Close() has been called
    \* ---- NegotiateAuth on its own ----
    neg,          \* one NegotiateAuth call: [S, P, reg, ctxDone, called, result]
    \* ---- the reader task (mainLoop) ----
    rdPc,         \* "none" until spawned, then its position in the loop
    rdMsg,        \* the message whose type byte has been read
    nextId,       \* number of messages the server has put on the wire
    parsed,       \* history: messages parsed from the stream, in order
    sink,         \* config.ServerMessageCh: "nil" or "chan"
    chanQ,        \* what the channel buffers
    chClosed,     \* the channel has been closed
    delivered,    \* history: messages the channel accepted, in order
    exitCause,    \* history: why the reader left its loop
    cancelMark,   \* history: Len(delivered) when c.ctx became done, or -1
    exitMark,     \* history: Len(delivered) when the reader exited, or -1
    ColorMap,     \* c.ColorMap
    \* ---- client messages ----
    wr,           \* per caller: [pc, call, buf, writes, pos, ret, err]
    wireOut,      \* bytes the stream carries, each tagged with its caller
    connWriter,   \* the caller inside c.c.Write, or 0
    Encs,         \* c.Encs
    \* ---- the stream towards the client, byte by byte ----
    connIn,       \* c.c as the reader sees it: [sent, pos, eof, n]: the bytes
                  \*   the server wrote, how many were read, whether the
                  \*   server closed, how many messages it wrote
    readErr,      \* history: the error the last msg.Read returned
    \* ---- functions and goroutines on their own ----
    fx            \* the function applied, its arguments and what it returned;
                  \*   the goroutines' positions and c.mu; the server's silence

hsVars   == <<cfg, pc, visited, hsErr, hsWhy, returned, hsOut, loc>>
sessVars == <<fbW, fbH, pixelFormat, desktopName>>
connVars == <<cancelled, connClosed>>
rdRest   == <<rdMsg, nextId, parsed, sink, chanQ, chClosed, delivered,
              exitCause, cancelMark, exitMark, ColorMap>>
rdVars   == <<rdPc, rdRest>>
wrVars   == <<wr, wireOut, connWriter, Encs>>
inVars   == <<connIn, readErr>>
hsIdle   == <<neg, inVars, fx, rdVars, wrVars>>
vars     == <<hsVars, sessVars, connVars, neg, inVars, fx, rdVars, wrVars>>

(***************************************************************************)
(* Bounds of the model.                                                    *)
(***************************************************************************)
MaxAuth  == 2      \* longest ClientConfig.Auth list
MaxTypes == 2      \* most security types a server offers
MaxMsgs  == 3      \* most messages a server sends to the reader
ChanCap  == 1      \* capacity of config.ServerMessageCh
MaxWrites == 2     \* concurrent client-message calls
SegLen   == 16     \* most bytes the stream takes from a Write in one step

(***************************************************************************)
(* Generic helpers.                                                        *)
(***************************************************************************)
SeqsUpTo(S, n) == UNION {[1..k -> S] : k \in 0..n}
Range(s) == {s[i] : i \in 1..Len(s)}
IsPrefix(s, t) == Len(s) <= Len(t) /\ \A i \in 1..Len(s) : s[i] = t[i]

(***************************************************************************)
(* Error categories (ErrorCode).  An error is the chain of VNCError codes, *)
(* outermost first; GetErrorCode / IsVNCError see the outermost VNCError   *)
(* (errors.As), i.e. the head of the chain.                                *)
(***************************************************************************)
NoErr == <<>>
GetErrorCode(e) == IF e = NoErr THEN "none" ELSE e[1]

(***************************************************************************)
(* Authentication methods.                                                 *)
(***************************************************************************)
NoneM       == [t |-> 1, kind |-> "None", pw |-> ""]
PwM(p)      == [t |-> 2, kind |-> "VNC Password", pw |-> p]
CustomM     == [t |-> 16, kind |-> "Custom", pw |-> ""]
NoAuth      == [t |-> 0, kind |-> "nil", pw |-> ""]

\* PasswordAuth.SecurityType / ClientAuthNone.SecurityType
SecurityType(m) == m.t

\* NewAuthRegistry: type 1 -> &ClientAuthNone{}, type 2 -> &PasswordAuth{}
NewAuthRegistry == {NoneM, PwM("")}

\* AuthRegistry.IsSupported
IsSupported(reg, t) == \E m \in reg : m.t = t

\* AuthRegistry.CreateAuth: the factory's product (callers check IsSupported)
CreateAuth(reg, t) == CHOOSE m \in reg : m.t = t

(***************************************************************************)
(* AuthRegistry.NegotiateAuth.  A list is [nil, list]: Go distinguishes a  *)
(* nil slice from an empty one and the code tests preferredOrder == nil.   *)
(***************************************************************************)
NilList == [nil |-> TRUE, list |-> <<>>]
ListOf(l) == [nil |-> FALSE, list |-> l]

RECURSIVE NegotiateFrom(_, _, _, _)
NegotiateFrom(order, i, serverTypes, reg) ==
    IF i > Len(order)
    THEN [err |-> <<"Unsupported">>, t |-> 0, auth |-> NoAuth]
    ELSE IF (\E j \in 1..Len(serverTypes) : order[i] = serverTypes[j])
            /\ IsSupported(reg, order[i])
         THEN [err |-> NoErr, t |-> order[i], auth |-> CreateAuth(reg, order[i])]
         ELSE NegotiateFrom(order, i + 1, serverTypes, reg)

NegotiateAuth(ctxDone, serverTypes, preferredOrder, reg) ==
    IF ctxDone
    THEN [err |-> <<"Timeout">>, t |-> 0, auth |-> NoAuth]
    ELSE LET order == IF preferredOrder.nil THEN serverTypes
                      ELSE preferredOrder.list
         IN NegotiateFrom(order, 1, serverTypes, reg)

\* AuthRegistry.ValidateAuthMethod
ValidateAuthMethod(m) ==
    IF m = NoAuth THEN <<"Validation">>
    ELSE IF SecurityType(m) = 0 THEN <<"Validation">>
    ELSE IF m.kind = "VNC Password" /\ m.pw = "" THEN <<"Validation">>
    ELSE NoErr

(***************************************************************************)
(* ProtoVersion.  The 12 bytes are a sequence of byte tokens: "LF" is the  *)
(* byte 0x0A, "D9" "A3" are the UTF-8 bytes of U+0663 (a non-ASCII digit), *)
(* every other token is the ASCII character it shows.                      *)
(***************************************************************************)
pvLen == 12
AsciiDigits == {"0", "1", "2", "3", "4", "5", "6", "7", "8", "9"}
DigitVal(d) == CASE d = "0" -> 0 [] d = "1" -> 1 [] d = "2" -> 2 [] d = "3" -> 3
                 [] d = "4" -> 4 [] d = "5" -> 5 [] d = "6" -> 6 [] d = "7" -> 7
                 [] d = "8" -> 8 [] d = "9" -> 9

\* for i, char := range versionPart: the rune that starts at byte i and
\* the number of bytes it spans (an invalid byte decodes to U+FFFD, width 1)
RuneAt(bytes, i) ==
    IF bytes[i] = "D9" /\ i < Len(bytes) /\ bytes[i + 1] = "A3"
    THEN [r |-> "U+0663", w |-> 2]
    ELSE IF bytes[i] \in {"D9", "A3"} THEN [r |-> "U+FFFD", w |-> 1]
    ELSE [r |-> bytes[i], w |-> 1]

\* unicode.IsDigit
IsDigit(r) == r \in AsciiDigits \/ r = "U+0663"

\* the digit loop of ValidateProtocolVersion over versionPart (1-based; the
\* code's i == 3 is index 4 here)
RECURSIVE VersionPartDigits(_, _)
VersionPartDigits(vp, i) ==
    IF i > Len(vp) THEN TRUE
    ELSE LET ru == RuneAt(vp, i)
         IN (i = 4 \/ IsDigit(ru.r)) /\ VersionPartDigits(vp, i + ru.w)

\* InputValidator.ValidateProtocolVersion: TRUE when it returns nil
ValidateProtocolVersion(v) ==
    /\ Len(v) = 12
    /\ SubSeq(v, 1, 4) = <<"R", "F", "B", " ">>
    /\ v[12] = "LF"
    /\ LET vp == SubSeq(v, 5, 11)
       IN Len(vp) = 7 /\ vp[4] = "." /\ VersionPartDigits(vp, 1)

\* fmt's %d into a uint: the longest run of ASCII digits from position i,
\* as [ok, n, next]
RECURSIVE ScanDigits(_, _, _, _)
ScanDigits(v, i, n, seen) ==
    IF i <= Len(v) /\ v[i] \in AsciiDigits
    THEN ScanDigits(v, i + 1, 10 * n + DigitVal(v[i]), TRUE)
    ELSE [ok |-> seen, n |-> n, next |-> i]

\* parseProtocolVersion: fmt.Sscanf(string(pv), "RFB %d.%d\n", &major, &minor)
parseProtocolVersion(v) ==
    IF Len(v) < pvLen THEN [err |-> <<"Protocol">>, major |-> 0, minor |-> 0]
    ELSE IF SubSeq(v, 1, 4) # <<"R", "F", "B", " ">>
         THEN [err |-> <<"Protocol">>, major |-> 0, minor |-> 0]
    ELSE LET ma == ScanDigits(v, 5, 0, FALSE)
         IN IF ~ma.ok \/ ma.next > Len(v) \/ v[ma.next] # "."
            THEN [err |-> <<"Protocol">>, major |-> 0, minor |-> 0]
            ELSE LET mi == ScanDigits(v, ma.next + 1, 0, FALSE)
                 IN IF ~mi.ok \/ mi.next > Len(v) \/ v[mi.next] # "LF"
                    THEN [err |-> <<"Protocol">>, major |-> 0, minor |-> 0]
                    ELSE [err |-> NoErr, major |-> ma.n, minor |-> mi.n]

\* the version floor of handshakeWithContext (client.go 1082-1089), read
\* as "at least 3.8"
VersionFloorLexicographic(major, minor) ==
    IF major < 3 \/ (major = 3 /\ minor < 8) THEN <<"Unsupported">> ELSE NoErr

VersionFloor(major, minor) ==
    IF major < 3 THEN <<"Unsupported">>
    ELSE IF minor < 8 THEN <<"Unsupported">>
    ELSE NoErr

\* handshakeWithContext 1064-1089: the error for version bytes v, or NoErr
CheckVersion(v) ==
    IF ~ValidateProtocolVersion(v) THEN <<"Protocol", "Validation">>
    ELSE LET p == parseProtocolVersion(v)
         IN IF p.err # NoErr THEN p.err ELSE VersionFloor(p.major, p.minor)

ClientVersion == <<"R", "F", "B", " ", "0", "0", "3", ".", "0", "0", "8", "LF">>

\* the version messages a server may send
MkVersion(a, b) == <<"R", "F", "B", " ">> \o a \o <<".">> \o b \o <<"LF">>
MajorStrs == {<<"0", "0", "2">>, <<"0", "0", "3">>, <<"0", "1", "0">>}
MinorStrs == {<<"0", "0", "7">>, <<"0", "0", "8">>, <<"0", "1", "0">>}
GoodVersions == {MkVersion(a, b) : a \in MajorStrs, b \in MinorStrs}
Subst(v, i, c) == [v EXCEPT ![i] = c]
BadVersions ==
    ({Subst(ClientVersion, i, c) : i \in 1..12, c \in {"x", " ", "."}}
        \ {ClientVersion})
    \cup {<<"R", "F", "B", " ", "D9", "A3", "3", ".", "0", "0", "8", "LF">>,
          <<"R", "F", "B", " ", "0", "0", "3", ".", "D9", "0", "8", "LF">>}
Versions == GoodVersions \cup BadVersions
NoVersion == <<>>

(***************************************************************************)
(* Pixel formats and text, as ServerInit carries them.                     *)
(***************************************************************************)
PF(bpp, depth, be, tc, rm, gm, bm, rs, gs, bs) ==
    [BPP |-> bpp, Depth |-> depth, BigEndian |-> be, TrueColor |-> tc,
     RedMax |-> rm, GreenMax |-> gm, BlueMax |-> bm,
     RedShift |-> rs, GreenShift |-> gs, BlueShift |-> bs]
ZeroPF == PF(0, 0, FALSE, FALSE, 0, 0, 0, 0, 0, 0)

\* readPixelFormat on the decoded fields of the 16 wire bytes: the max and
\* shift fields are read only when the true-colour byte is non-zero
readPixelFormat(w) ==
    IF w.TrueColor THEN w
    ELSE [w EXCEPT !.RedMax = 0, !.GreenMax = 0, !.BlueMax = 0,
                   !.RedShift = 0, !.GreenShift = 0, !.BlueShift = 0]

\* InputValidator.countBits
RECURSIVE countBits(_)
countBits(value) ==
    IF value = 0 THEN 0 ELSE (value % 2) + countBits(value \div 2)

\* a validation of the bits per pixel and the depth alone
ValidatePixelFormatDepthOnly(pf) ==
    /\ pf.BPP \in {8, 16, 32}
    /\ ~(pf.Depth = 0 \/ pf.Depth > pf.BPP)

\* InputValidator.ValidatePixelFormat: TRUE when it returns nil
ValidatePixelFormat(pf) ==
    /\ pf.BPP \in {8, 16, 32}
    /\ ~(pf.Depth = 0 \/ pf.Depth > pf.BPP)
    /\ pf.TrueColor =>
         /\ ~(pf.RedMax = 0 \/ pf.GreenMax = 0 \/ pf.BlueMax = 0)
         /\ LET maxShift == pf.BPP - 1
            IN ~(pf.RedShift >= maxShift \/ pf.GreenShift >= maxShift
                 \/ pf.BlueShift >= maxShift)
         /\ countBits(pf.RedMax) + countBits(pf.GreenMax)
              + countBits(pf.BlueMax) <= pf.Depth

\* InputValidator.ValidateFramebufferDimensions: TRUE when it returns nil
ValidateFramebufferDimensions(width, height) ==
    /\ ~(width = 0 \/ height = 0)
    /\ ~(width > 32768 \/ height > 32768)
    /\ width * height <= 1024 * 1024 * 1024

\* InputValidator.ValidateMessageLength: TRUE when it returns nil
ValidateMessageLength(length, maxLength) ==
    ~(length = 0) /\ ~(length > maxLength)

\* Text is a sequence of byte tokens: "d" a printable ASCII character,
\* "TAB" 0x09, "x01" a control character, "xFF" a byte that is no UTF-8.
TextBytes == {"d", "TAB", "x01", "xFF"}

\* A Go string is a sequence of characters; beside the byte tokens, "U+00E9"
\* (e acute, in Latin-1, two bytes of UTF-8), "U+20AC" (the euro sign,
\* beyond Latin-1, three bytes) and "U+FFFD" (the replacement character).
\* Utf8Len is the bytes a character takes in the string, StrLen is len(text),
\* CodePoint the rune that ranging over the string yields.
Utf8Len(tok) == CASE tok = "U+00E9" -> 2
                  [] tok \in {"U+20AC", "U+FFFD"} -> 3
                  [] OTHER -> 1
RECURSIVE StrLen(_)
StrLen(text) == IF text = <<>> THEN 0 ELSE Utf8Len(Head(text)) + StrLen(Tail(text))
CodePoint(tok) == CASE tok = "d" -> 100 [] tok = "TAB" -> 9 [] tok = " " -> 32
                    [] tok = "x01" -> 1 [] tok = "U+00E9" -> 233
                    [] tok = "U+20AC" -> 8364 [] OTHER -> 65533

\* InputValidator.ValidateTextData: TRUE when it returns nil
ValidateTextData(text, maxLength) ==
    /\ StrLen(text) <= maxLength
    /\ \A i \in 1..Len(text) : text[i] # "xFF"
    /\ \A i \in 1..Len(text) : text[i] # "x01"

\* InputValidator.SanitizeText
SanitizeText(text) ==
    [i \in 1..Len(text) |->
        CASE text[i] = "TAB" -> "TAB"
          [] text[i] = "x01" -> " "
          [] text[i] = "xFF" -> "U+FFFD"
          [] OTHER -> text[i]]

maxDesktopNameLength == 1048576
maxErrorReasonLength == 65536

\* readErrorReason: the string it returns for a reason length and text the
\* server sends (io says where the stream fails, if it does)
readErrorReason(io, reasonLen, reason) ==
    IF io = "noLength" THEN <<"<failed to read error reason length>">>
    ELSE IF io = "noText" /\ ValidateMessageLength(reasonLen, maxErrorReasonLength)
         THEN <<"<failed to read error reason>">>
    ELSE IF ~ValidateMessageLength(reasonLen, maxErrorReasonLength)
         THEN <<"<invalid error reason length>">>
    ELSE IF ~ValidateTextData(reason, maxErrorReasonLength)
         THEN SanitizeText(reason)
    ELSE reason

(***************************************************************************)
(* What a server may send.                                                 *)
(***************************************************************************)
SecTypeDomain == {0, 1, 2, 16}
OfferedTypes  == SeqsUpTo(SecTypeDomain, MaxTypes) \ {<<>>}
SecResults    == {0, 1, 2}
DimDomain     == {0, 4, 40000}
PfDomain      == {PF(32, 24, FALSE, TRUE, 255, 255, 255, 16, 8, 0),
                  PF(8, 8, FALSE, FALSE, 7, 7, 3, 5, 2, 0),
                  PF(24, 24, FALSE, TRUE, 255, 255, 255, 16, 8, 0),
                  PF(16, 16, TRUE, TRUE, 31, 63, 0, 11, 5, 0),
                  PF(32, 24, FALSE, TRUE, 255, 255, 255, 31, 8, 0),
                  PF(16, 8, FALSE, TRUE, 31, 63, 31, 11, 5, 0)}
NameLens      == {0, 1, 2, maxDesktopNameLength + 1}
Texts(n)      == IF n <= 2 THEN [1..n -> TextBytes] ELSE {[i \in 1..n |-> "d"]}
ReasonLens    == {0, 1, maxErrorReasonLength + 1}

(***************************************************************************)
(* Client configurations.                                                  *)
(***************************************************************************)
AuthMethods == {NoneM, PwM("secret")}
AuthLists   == {NilList} \cup {ListOf(l) : l \in SeqsUpTo(AuthMethods, MaxAuth)}
NoRegistry  == [present |-> FALSE, reg |-> {}]
Registries  == {NoRegistry} \cup
               {[present |-> TRUE, reg |-> r] :
                   r \in {{}, {NoneM}, {PwM("")}, NewAuthRegistry,
                          {NoneM, PwM("secret")}}}
NilConfig   == [nil |-> TRUE, auth |-> NilList, registry |-> NoRegistry,
                exclusive |-> FALSE]
Configs     == {NilConfig} \cup
               {[nil |-> FALSE, auth |-> a, registry |-> r, exclusive |-> e] :
                   a \in AuthLists, r \in Registries, e \in BOOLEAN}

(***************************************************************************)
(* The handshake: ClientWithContext and handshakeWithContext.  One action  *)
(* per blocking read or write; what follows a read up to the next read or  *)
(* write (validation, negotiation, the error return and ClientWithContext's*)
(* conn.Close()) belongs to the same action.                               *)
(***************************************************************************)
HsOrder == <<"ProtoVersion", "Security", "AuthExchange", "SecurityResult",
             "ClientInit", "ServerInit", "Running">>

\* the handshake state a position of the code lies in
StateOf(p) ==
    CASE p \in {"pv_read", "pv_reply"} -> "ProtoVersion"
      [] p \in {"sec_count", "sec_reason", "sec_types", "sec_select"} -> "Security"
      [] p \in {"auth", "auth_challenge"} -> "AuthExchange"
      [] p \in {"secres", "secres_reason"} -> "SecurityResult"
      [] p = "clientinit" -> "ClientInit"
      [] p \in {"si_dims", "si_pf", "si_namelen", "si_name", "hs_ok"} -> "ServerInit"
      [] p = "running" -> "Running"

NoLocals == [pvIn |-> NoVersion, n |-> 0, secTypes |-> <<>>, auth |-> NoAuth,
             secResult |-> 0, reason |-> <<>>, w |-> 0, h |-> 0, nameLen |-> 0]

\* the code moves on to position p
Goto(p) ==
    /\ pc' = p
    /\ visited' = IF visited[Len(visited)] = StateOf(p) THEN visited
                  ELSE Append(visited, StateOf(p))
    /\ UNCHANGED <<hsErr, hsWhy, returned, connVars>>

\* handshakeWithContext returns err; ClientWithContext (246-249) calls
\* conn.Close() (cancel, then c.c.Close()) and returns nil, err
Fail(chain, why) ==
    /\ pc' = "failed"
    /\ hsErr' = chain
    /\ hsWhy' = why
    /\ returned' = "nil"
    /\ cancelled' = TRUE
    /\ connClosed' = TRUE
    /\ UNCHANGED visited

\* a nil pointer dereference unwinds ClientWithContext: nothing is closed,
\* nothing is returned
Panic ==
    /\ pc' = "panic"
    /\ returned' = "panic"
    /\ UNCHANGED <<hsErr, hsWhy, visited, connVars>>

\* writeWithContext / writeBinaryWithContext of x during the handshake
HsWrite(x, next) ==
    \/ /\ hsOut' = Append(hsOut, x)
       /\ Goto(next)
    \/ /\ hsOut' = hsOut
       /\ Fail(<<"Network">>, "io")
    \/ /\ cancelled
       /\ \E wrote \in BOOLEAN : hsOut' = IF wrote THEN Append(hsOut, x) ELSE hsOut
       /\ Fail(<<"Network">>, "ctx")

\* a context-aware read returns an error: the stream failed, or ctx is done
HsReadError ==
    \/ Fail(<<"Network">>, "io")
    \/ cancelled /\ Fail(<<"Network">>, "ctx")

\* the parts of the state a specification does not exercise
NoMsg   == [id |-> 0, type |-> 0]
NoArgs  == [method |-> "none", n |-> <<>>, format |-> ZeroPF, text |-> <<>>]
NoCall  == [pc |-> "idle", call |-> NoArgs, buf |-> <<>>, writes |-> <<>>,
            pos |-> 0, ret |-> "pending", err |-> NoErr]
\* Color{R, G, B} and the zero value of [ColorMapSize]Color
ColorMapSize == 256
Color(r, g, b) == <<r, g, b>>
ZeroColorMap == [i \in 0..(ColorMapSize - 1) |-> Color(0, 0, 0)]
NoResult == [err |-> NoErr, t |-> 0, auth |-> NoAuth]
NoInput  == [sent |-> <<>>, pos |-> 0, eof |-> FALSE, n |-> 0]
NoFx     == [op |-> "none"]
InIdle   == connIn = NoInput /\ readErr = NoErr /\ fx = NoFx
NegIdle == neg = [S |-> <<>>, P |-> NilList, reg |-> {}, ctxDone |-> FALSE,
                  called |-> FALSE, result |-> NoResult]
RdIdle  ==
    /\ rdPc = "none" /\ rdMsg = NoMsg /\ nextId = 0 /\ parsed = <<>>
    /\ sink = "nil" /\ chanQ = <<>> /\ chClosed = FALSE /\ delivered = <<>>
    /\ exitCause = "none" /\ cancelMark = -1 /\ exitMark = -1
    /\ ColorMap = ZeroColorMap
WrIdle  ==
    /\ wr = [w \in 1..MaxWrites |-> NoCall]
    /\ wireOut = <<>> /\ connWriter = 0 /\ Encs = <<>>

HsInit ==
    /\ cfg \in Configs
    /\ pc = "pv_read"
    /\ visited = <<"ProtoVersion">>
    /\ hsErr = NoErr
    /\ hsWhy = "none"
    /\ returned = "pending"
    /\ hsOut = <<>>
    /\ loc = NoLocals
    /\ fbW = 0 /\ fbH = 0 /\ pixelFormat = ZeroPF /\ desktopName = <<>>
    /\ cancelled = FALSE
    /\ connClosed = FALSE
    /\ NegIdle /\ RdIdle /\ WrIdle /\ InIdle

\* 7.1.1: read the ProtocolVersion message and check it (1056-1089)
HsReadVersion ==
    /\ pc = "pv_read"
    /\ \/ \E v \in Versions :
            /\ loc' = [loc EXCEPT !.pvIn = v]
            /\ IF CheckVersion(v) = NoErr THEN Goto("pv_reply")
               ELSE Fail(CheckVersion(v), "version")
       \/ HsReadError /\ UNCHANGED loc
    /\ UNCHANGED <<cfg, hsOut, sessVars, hsIdle>>

\* reply with the version the client supports (1091-1096)
HsReplyVersion ==
    /\ pc = "pv_reply"
    /\ HsWrite([kind |-> "version", v |-> ClientVersion], "sec_count")
    /\ UNCHANGED <<cfg, loc, sessVars, hsIdle>>

\* 7.1.2: read the number of security types (1098-1110)
HsReadTypeCount ==
    /\ pc = "sec_count"
    /\ \/ \E numSecurityTypes \in 0..MaxTypes :
            /\ loc' = [loc EXCEPT !.pvIn = NoVersion, !.n = numSecurityTypes]
            /\ Goto(IF numSecurityTypes = 0 THEN "sec_reason" ELSE "sec_types")
       \/ /\ loc' = [loc EXCEPT !.pvIn = NoVersion]
          /\ HsReadError
    /\ UNCHANGED <<cfg, hsOut, sessVars, hsIdle>>

\* readErrorReason, which reads with binary.Read and not under ctx, and the
\* authenticationError that follows it (1106-1110 and 1229-1233)
HsReadReason ==
    /\ pc \in {"sec_reason", "secres_reason"}
    /\ \E io \in {"ok", "noLength", "noText"}, n \in ReasonLens :
         \E text \in (IF n = 1 THEN Texts(1) ELSE {<<>>}) :
            loc' = [loc EXCEPT !.reason = readErrorReason(io, n, text)]
    /\ Fail(<<"Authentication">>, "server")
    /\ UNCHANGED <<cfg, hsOut, sessVars, hsIdle>>

\* preferredOrder as handshakeWithContext builds it from config.Auth
\* (1141-1147): nil stays nil, a list becomes the list of its types
PreferredOrder(a) ==
    IF a.nil THEN NilList
    ELSE ListOf([i \in 1..Len(a.list) |-> SecurityType(a.list[i])])

\* the FindAuth loop of the path without a registry (1161-1176)
RECURSIVE FindAuth(_, _, _)
FindAuth(clientSecurityTypes, i, serverTypes) ==
    IF i > Len(clientSecurityTypes) THEN NoAuth
    ELSE IF \E j \in 1..Len(serverTypes) :
                SecurityType(clientSecurityTypes[i]) = serverTypes[j]
         THEN clientSecurityTypes[i]
         ELSE FindAuth(clientSecurityTypes, i + 1, serverTypes)

\* InputValidator.ValidateSecurityTypes: TRUE when it returns nil
ValidateSecurityTypes(types) ==
    /\ Len(types) # 0
    /\ Len(types) <= 255
    /\ \A i \in 1..Len(types) : types[i] # 0

\* how handshakeWithContext reports a failed negotiation (1155, 1181):
\* err is the registry's error, or NoErr on the path without a registry
NegotiationErrorUnwrapped(err) ==
    IF err = NoErr THEN <<"Unsupported">> ELSE err

NegotiationError(err) == <<"Authentication">> \o err

\* the selection as the path without a registry makes it, whatever the
\* configuration holds
SelectAuthFromList(c, ctxDone, serverTypes) ==
    LET clientSecurityTypes == IF c.auth.nil THEN <<NoneM>> ELSE c.auth.list
        a == FindAuth(clientSecurityTypes, 1, serverTypes)
    IN IF a = NoAuth THEN [err |-> NegotiationError(NoErr), auth |-> NoAuth]
       ELSE [err |-> NoErr, auth |-> a]

\* the selection of 1132-1183: [err, auth]
SelectAuth(c, ctxDone, serverTypes) ==
    IF c.registry.present
    THEN LET r == NegotiateAuth(ctxDone, serverTypes, PreferredOrder(c.auth),
                                c.registry.reg)
         IN IF r.err # NoErr THEN [err |-> NegotiationError(r.err), auth |-> NoAuth]
            ELSE [err |-> NoErr, auth |-> r.auth]
    ELSE LET clientSecurityTypes == IF c.auth.nil THEN <<NoneM>> ELSE c.auth.list
             a == FindAuth(clientSecurityTypes, 1, serverTypes)
         IN IF a = NoAuth THEN [err |-> NegotiationError(NoErr), auth |-> NoAuth]
            ELSE [err |-> NoErr, auth |-> a]

\* read the security types, validate them and select the method (1114-1183)
HsReadTypes ==
    /\ pc = "sec_types"
    /\ \/ \E s \in [1..loc.n -> SecTypeDomain] :
            IF ~ValidateSecurityTypes(s)
            THEN /\ loc' = [loc EXCEPT !.secTypes = s, !.n = 0]
                 /\ Fail(<<"Protocol", "Validation">>, "types")
            ELSE IF cfg.nil
            THEN /\ loc' = [loc EXCEPT !.secTypes = s, !.n = 0]
                 /\ Panic
            ELSE LET sel == SelectAuth(cfg, cancelled, s)
                 IN /\ loc' = [loc EXCEPT !.secTypes = s, !.n = 0, !.auth = sel.auth]
                    /\ IF sel.err # NoErr THEN Fail(sel.err, "negotiation")
                       ELSE Goto("sec_select")
       \/ /\ loc' = [loc EXCEPT !.n = 0]
          /\ HsReadError
    /\ UNCHANGED <<cfg, hsOut, sessVars, hsIdle>>

\* send the selected type, then validate the method (1189-1204)
HsSendType ==
    /\ pc = "sec_select"
    /\ \/ /\ hsOut' = Append(hsOut, [kind |-> "u8", v |-> SecurityType(loc.auth)])
          /\ IF cfg.registry.present /\ ValidateAuthMethod(loc.auth) # NoErr
             THEN Fail(<<"Authentication">> \o ValidateAuthMethod(loc.auth), "method")
             ELSE Goto("auth")
       \/ /\ hsOut' = hsOut
          /\ Fail(<<"Network">>, "io")
       \/ /\ cancelled
          /\ \E wrote \in BOOLEAN :
                hsOut' = IF wrote
                         THEN Append(hsOut, [kind |-> "u8", v |-> SecurityType(loc.auth)])
                         ELSE hsOut
          /\ Fail(<<"Network">>, "ctx")
    /\ UNCHANGED <<cfg, loc, sessVars, hsIdle>>

\* auth.Handshake up to its first read (ClientAuthNone.Handshake whole;
\* PasswordAuth.Handshake 539-568), and its error wrapped by 1213-1219
HsAuthStart ==
    /\ pc = "auth"
    /\ IF cancelled THEN Fail(<<"Authentication", "Timeout">>, "ctx")
       ELSE IF loc.auth.kind = "None" THEN Goto("secres")
       ELSE Goto("auth_challenge")
    /\ loc' = [loc EXCEPT !.secTypes = <<>>]
    /\ UNCHANGED <<cfg, hsOut, sessVars, hsIdle>>

\* PasswordAuth.Handshake from the challenge on (570-633): binary.Read of
\* 16 bytes (not under ctx), the ctx check, encrypt, binary.Write
HsAuthChallenge ==
    /\ pc = "auth_challenge"
    /\ \/ /\ ~cancelled
          /\ hsOut' = Append(hsOut, [kind |-> "response", v |-> loc.auth.pw])
          /\ Goto("secres")
       \/ /\ cancelled
          /\ hsOut' = hsOut
          /\ Fail(<<"Authentication", "Timeout">>, "ctx")
       \/ /\ hsOut' = hsOut
          /\ Fail(<<"Authentication", "Network">>, "io")
    /\ UNCHANGED <<cfg, loc, sessVars, hsIdle>>

\* what follows the SecurityResult word (1229-1235): the next position
AfterSecurityResult(result) ==
    IF result = 1 THEN "secres_reason" ELSE "clientinit"

\* 7.1.3: read the SecurityResult (1221-1235)
HsReadResult ==
    /\ pc = "secres"
    /\ \/ \E r \in SecResults :
            /\ loc' = [loc EXCEPT !.secResult = r]
            /\ Goto(AfterSecurityResult(r))
       \/ HsReadError /\ UNCHANGED loc
    /\ UNCHANGED <<cfg, hsOut, sessVars, hsIdle>>

\* 7.3.1: ClientInit (1237-1248)
HsClientInit ==
    /\ pc = "clientinit"
    /\ HsWrite([kind |-> "u8", v |-> IF cfg.exclusive THEN 0 ELSE 1], "si_dims")
    /\ UNCHANGED <<cfg, loc, sessVars, hsIdle>>


\* 7.3.2: read the framebuffer width and height (1250-1270)
HsReadDims ==
    /\ pc = "si_dims"
    /\ \/ \E width \in DimDomain, height \in DimDomain :
            /\ loc' = [loc EXCEPT !.w = width, !.h = height]
            /\ IF ValidateFramebufferDimensions(width, height)
               THEN Goto("si_pf")
               ELSE Fail(<<"Protocol", "Validation">>, "dims")
       \/ HsReadError /\ UNCHANGED loc
    /\ UNCHANGED <<cfg, hsOut, sessVars, hsIdle>>

\* read the pixel format, store the session fields, validate (1272-1291)
HsReadPixelFormat ==
    /\ pc = "si_pf"
    /\ \/ \E w \in PfDomain :
            /\ fbW' = loc.w
            /\ fbH' = loc.h
            /\ pixelFormat' = readPixelFormat(w)
            /\ IF ValidatePixelFormat(readPixelFormat(w))
               THEN Goto("si_namelen")
               ELSE Fail(<<"Protocol", "Validation">>, "pf")
       \/ /\ \/ Fail(<<"Protocol">>, "io")
             \/ cancelled /\ Fail(<<"Protocol">>, "ctx")
          /\ UNCHANGED <<fbW, fbH, pixelFormat>>
    /\ UNCHANGED <<cfg, hsOut, loc, desktopName, hsIdle>>

\* read and validate the length of the desktop name (1293-1305)
HsReadNameLength ==
    /\ pc = "si_namelen"
    /\ \/ \E nameLength \in NameLens :
            /\ loc' = [loc EXCEPT !.nameLen = nameLength]
            /\ IF ValidateMessageLength(nameLength, maxDesktopNameLength)
               THEN Goto("si_name")
               ELSE Fail(<<"Protocol", "Validation">>, "namelen")
       \/ HsReadError /\ UNCHANGED loc
    /\ UNCHANGED <<cfg, hsOut, sessVars, hsIdle>>

\* read the desktop name, sanitize it if it does not validate, store it
\* (1307-1322)
HsReadName ==
    /\ pc = "si_name"
    /\ \/ \E nameBytes \in Texts(loc.nameLen) :
            /\ desktopName' = IF ValidateTextData(nameBytes, maxDesktopNameLength)
                              THEN nameBytes ELSE SanitizeText(nameBytes)
            /\ Goto("hs_ok")
       \/ HsReadError /\ UNCHANGED desktopName
    /\ UNCHANGED <<cfg, hsOut, loc, fbW, fbH, pixelFormat, hsIdle>>

\* the reader started as soon as the name length has been validated
ReaderMaySpawnBeforeName == pc \in {"si_name", "hs_ok"}

\* where ClientWithContext starts the reader and returns the connection:
\* after handshakeWithContext has returned nil (246-253)
ReaderMaySpawn == pc = "hs_ok"

\* go conn.mainLoop(); return conn, nil (251-253)
HsSpawnReader ==
    /\ ReaderMaySpawn
    /\ pc' = "running"
    /\ visited' = Append(visited, "Running")
    /\ returned' = "conn"
    /\ rdPc' = "top"
    /\ UNCHANGED <<cfg, hsErr, hsWhy, hsOut, loc, sessVars, connVars, neg, inVars, fx,
                   rdRest, wrVars>>

\* the context given to ClientWithContext is cancelled, or its deadline
\* passes, while the handshake runs
HsCancel ==
    /\ pc \notin {"failed", "panic", "running"}
    /\ ~cancelled
    /\ cancelled' = TRUE
    /\ UNCHANGED <<hsVars, sessVars, connClosed, hsIdle>>

HsNext ==
    \/ HsReadVersion
    \/ HsReplyVersion
    \/ HsReadTypeCount
    \/ HsReadReason
    \/ HsReadTypes
    \/ HsSendType
    \/ HsAuthStart
    \/ HsAuthChallenge
    \/ HsReadResult
    \/ HsClientInit
    \/ HsReadDims
    \/ HsReadPixelFormat
    \/ HsReadNameLength
    \/ HsReadName
    \/ HsSpawnReader
    \/ HsCancel

SpecHs == HsInit /\ [][HsNext]_vars


(***************************************************************************)
(* Properties of the handshake (SpecHs).                                   *)
(***************************************************************************)
HsEnded == pc \in {"failed", "panic"}

ServerInitComplete ==
    /\ ValidateFramebufferDimensions(fbW, fbH)
    /\ ValidatePixelFormat(pixelFormat)
    /\ ValidateMessageLength(Len(desktopName), maxDesktopNameLength)
    /\ Len(desktopName) = loc.nameLen

\* C2: the handshake enters its states in the order ProtoVersion, Security,
\* AuthExchange, SecurityResult, ClientInit, ServerInit, Running, none
\* skipped and none entered twice; the reader is spawned and the connection
\* returned only when every state has been passed and ServerInit has been
\* read and validated in full.
C2_HandshakeOrder ==
    /\ IsPrefix(visited, HsOrder)
    /\ ~HsEnded => visited[Len(visited)] = StateOf(pc)
    /\ (rdPc # "none" \/ returned = "conn") =>
          /\ visited = HsOrder
          /\ pc = "running" /\ rdPc # "none" /\ returned = "conn"
          /\ hsErr = NoErr
          /\ ServerInitComplete

C2_Witness ==
    /\ returned = "conn" /\ rdPc = "top"
    /\ loc.auth.kind = "VNC Password"
    /\ desktopName = <<"d", " ">>

\* C3: a handshake that ends before Running has closed the stream, has
\* returned an error with a category and no connection, and has left no
\* reader behind.
C3_FailureClosesAndReports ==
    HsEnded =>
        /\ connClosed
        /\ returned = "nil"
        /\ GetErrorCode(hsErr) # "none"
        /\ rdPc = "none"

C3_Witness ==
    /\ pc = "panic" /\ cfg.nil /\ ~connClosed /\ hsErr = NoErr
    /\ loc.secTypes = <<1>>

\* the SecurityResult word has been read
SecResultRead ==
    \/ pc = "secres_reason"
    \/ "ClientInit" \in Range(visited)
    \/ pc = "failed" /\ hsWhy = "server"
         /\ visited[Len(visited)] = "SecurityResult"

\* C4: after the SecurityResult word, the handshake goes on to ClientInit
\* only for 0; for 1 it reads the reason and fails with Authentication; for
\* any other value it fails with Protocol.
C4_SecurityResultGate ==
    SecResultRead =>
        CASE loc.secResult = 0 -> "ClientInit" \in Range(visited)
          [] loc.secResult = 1 ->
                /\ "ClientInit" \notin Range(visited)
                /\ pc = "failed" => GetErrorCode(hsErr) = "Authentication"
          [] OTHER ->
                /\ "ClientInit" \notin Range(visited)
                /\ pc = "failed" /\ GetErrorCode(hsErr) = "Protocol"

C4_Witness ==
    /\ pc = "clientinit" /\ loc.secResult = 2

\* 'RFB ddd.ddd\n' with ASCII digits, and the numbers it spells
WellFormedVersion(v) ==
    /\ Len(v) = 12
    /\ v[1] = "R" /\ v[2] = "F" /\ v[3] = "B" /\ v[4] = " "
    /\ \A i \in {5, 6, 7, 9, 10, 11} : v[i] \in AsciiDigits
    /\ v[8] = "." /\ v[12] = "LF"
Number3(v, i) == 100 * DigitVal(v[i]) + 10 * DigitVal(v[i + 1]) + DigitVal(v[i + 2])

\* C5: a version with major < 3 or minor < 8 is rejected as Unsupported,
\* 12 bytes that are not 'RFB ddd.ddd\n' are rejected as Protocol, both
\* before anything is written; otherwise the first and only thing the
\* client writes in this state is 'RFB 003.008\n'.
C5_ProtoVersion ==
    loc.pvIn # NoVersion =>
        IF ~WellFormedVersion(loc.pvIn)
        THEN pc = "failed" /\ GetErrorCode(hsErr) = "Protocol" /\ hsOut = <<>>
        ELSE IF Number3(loc.pvIn, 5) < 3 \/ Number3(loc.pvIn, 9) < 8
        THEN pc = "failed" /\ GetErrorCode(hsErr) = "Unsupported" /\ hsOut = <<>>
        ELSE \/ pc = "pv_reply" /\ hsOut = <<>>
             \/ /\ pc = "sec_count"
                /\ hsOut = <<[kind |-> "version",
                              v |-> <<"R", "F", "B", " ", "0", "0", "3", ".",
                                      "0", "0", "8", "LF">>]>>
             \/ /\ pc = "failed" /\ GetErrorCode(hsErr) = "Network"
                /\ hsWhy \in {"io", "ctx"}
                /\ \A i \in 1..Len(hsOut) :
                      hsOut[i] = [kind |-> "version",
                                  v |-> <<"R", "F", "B", " ", "0", "0", "3", ".",
                                          "0", "0", "8", "LF">>]

C5_Witness ==
    /\ pc = "sec_count"
    /\ Len(hsOut) = 1
    /\ WellFormedVersion(loc.pvIn)
    /\ Number3(loc.pvIn, 5) = 10 /\ Number3(loc.pvIn, 9) = 8

\* the security types the client can use
ClientTypes(c) ==
    IF c.registry.present THEN {SecurityType(m) : m \in c.registry.reg}
    ELSE IF c.auth.nil THEN {1}
    ELSE {SecurityType(c.auth.list[i]) : i \in 1..Len(c.auth.list)}

\* the server's (valid) offer has been read and shares no type with the
\* client
DisjointOffer ==
    /\ ~cfg.nil
    /\ loc.secTypes # <<>>
    /\ ValidateSecurityTypes(loc.secTypes)
    /\ Range(loc.secTypes) \cap ClientTypes(cfg) = {}

\* C7 as stated: a disjoint offer fails the handshake with the Unsupported
\* category, with or without a registry.
C7_DisjointUnsupported ==
    DisjointOffer => pc = "failed" /\ GetErrorCode(hsErr) = "Unsupported"

\* C7: a disjoint offer fails the handshake with the Authentication
\* category before any type is written back; with a registry the error
\* wraps the registry's Unsupported (or Timeout, when the context was
\* already done), without one it wraps nothing.
C7_DisjointAuthentication ==
    DisjointOffer =>
        /\ pc = "failed"
        /\ GetErrorCode(hsErr) = "Authentication"
        /\ hsErr \in (IF cfg.registry.present
                      THEN {<<"Authentication", "Unsupported">>,
                            <<"Authentication", "Timeout">>}
                      ELSE {<<"Authentication">>})
        /\ \A i \in 1..Len(hsOut) : hsOut[i].kind = "version"

C7_Witness ==
    /\ DisjointOffer /\ cfg.registry.present /\ cfg.registry.reg # {}
    /\ hsErr = <<"Authentication", "Unsupported">>
    /\ loc.secTypes = <<16, 2>>


(***************************************************************************)
(* SpecNeg: AuthRegistry.NegotiateAuth on every input within the bounds.   *)
(***************************************************************************)
\* no connection: the registry is used on its own
HsAbsent ==
    /\ cfg = NilConfig /\ pc = "none" /\ visited = <<>>
    /\ hsErr = NoErr /\ hsWhy = "none" /\ returned = "pending"
    /\ hsOut = <<>> /\ loc = NoLocals
    /\ fbW = 0 /\ fbH = 0 /\ pixelFormat = ZeroPF /\ desktopName = <<>>
    /\ cancelled = FALSE /\ connClosed = FALSE

NegRegistries == {{}, {NoneM}, {PwM("")}, NewAuthRegistry, {NoneM, CustomM}}
NegTypeLists  == SeqsUpTo(SecTypeDomain \ {0}, MaxTypes)

NegInit ==
    /\ \E S \in NegTypeLists \ {<<>>},
          P \in {NilList} \cup {ListOf(l) : l \in NegTypeLists},
          reg \in NegRegistries, done \in BOOLEAN :
          neg = [S |-> S, P |-> P, reg |-> reg, ctxDone |-> done,
                 called |-> FALSE, result |-> NoResult]
    /\ HsAbsent /\ RdIdle /\ WrIdle /\ InIdle

\* r.NegotiateAuth(ctx, serverTypes, preferredOrder)
NegCall ==
    /\ ~neg.called
    /\ neg' = [neg EXCEPT !.called = TRUE,
                          !.result = NegotiateAuth(neg.ctxDone, neg.S, neg.P,
                                                   neg.reg)]
    /\ UNCHANGED <<hsVars, sessVars, connVars, inVars, fx, rdVars, wrVars>>

NegNext == NegCall

SpecNeg == NegInit /\ [][NegNext]_vars

\* the first element of order that the server offers and the registry holds
Eligible(order, S, reg) ==
    {i \in 1..Len(order) : order[i] \in Range(S) /\ \E m \in reg : m.t = order[i]}
FirstEligible(order, S, reg) ==
    LET E == Eligible(order, S, reg)
    IN IF E = {} THEN 0 ELSE order[CHOOSE i \in E : \A j \in E : i <= j]

\* C6: the selected type is the first element of P that the server offers
\* and that is registered; with no preferences (no list, or an empty list)
\* it is the first registered element of S.
C6_Selection ==
    (neg.called /\ ~neg.ctxDone) =>
        LET order == IF neg.P.list = <<>> THEN neg.S ELSE neg.P.list
            want  == FirstEligible(order, neg.S, neg.reg)
        IN /\ neg.result.t = want
           /\ want # 0 => neg.result.err = NoErr /\ neg.result.auth.t = want

C6_Witness ==
    /\ neg.called /\ ~neg.ctxDone
    /\ neg.P = ListOf(<<>>) /\ neg.S = <<2, 1>> /\ neg.reg = NewAuthRegistry
    /\ neg.result.err = <<"Unsupported">>


(***************************************************************************)
(* SpecRead: the reader task (mainLoop) of an established connection, the  *)
(* caller receiving from config.ServerMessageCh, cancellation and Close.   *)
(***************************************************************************)
\* message type bytes a server may send; 99 is in no typeMap
MsgTypes == {0, 1, 2, 3, 99}

\* the typeMap of mainLoop: FramebufferUpdate, SetColorMapEntries, Bell,
\* ServerCutText
typeMap == {0, 1, 2, 3}

\* colour maps that differ from the zero map in their first two entries
ColorMaps ==
    {[i \in 0..(ColorMapSize - 1) |-> IF i < 2 THEN m[i] ELSE Color(0, 0, 0)] :
        m \in [0..1 -> {Color(0, 0, 0), Color(65535, 65535, 65535)}]}

DefaultConfig == [nil |-> FALSE, auth |-> NilList, registry |-> NoRegistry,
                  exclusive |-> FALSE]

\* the state ClientWithContext leaves behind when it returns a connection
\* to a server whose ServerInit gave the framebuffer as width x height
EstablishedAs(width, height) ==
    /\ cfg = DefaultConfig /\ pc = "running" /\ visited = HsOrder
    /\ hsErr = NoErr /\ hsWhy = "none" /\ returned = "conn"
    /\ hsOut = <<[kind |-> "version", v |-> ClientVersion],
                 [kind |-> "u8", v |-> 1], [kind |-> "u8", v |-> 1]>>
    /\ loc = [NoLocals EXCEPT !.auth = NoneM, !.w = width, !.h = height,
                              !.nameLen = 1]
    /\ fbW = width /\ fbH = height
    /\ pixelFormat = PF(32, 24, FALSE, TRUE, 255, 255, 255, 16, 8, 0)
    /\ desktopName = <<"d">>
    /\ cancelled = FALSE /\ connClosed = FALSE

Established == EstablishedAs(4, 4)

RdInit ==
    /\ Established
    /\ rdPc = "top" /\ rdMsg = NoMsg /\ nextId = 0 /\ parsed = <<>>
    /\ sink \in {"nil", "chan"}
    /\ chanQ = <<>> /\ chClosed = FALSE /\ delivered = <<>>
    /\ exitCause = "none" /\ cancelMark = -1 /\ exitMark = -1
    /\ ColorMap = ZeroColorMap
    /\ NegIdle /\ WrIdle /\ InIdle

\* c.cancel(): the first call makes c.ctx done
CancelCtx ==
    /\ cancelled' = TRUE
    /\ cancelMark' = IF cancelled THEN cancelMark ELSE Len(delivered)

\* mainLoop returns without its deferred Close
RdExitNoClose(cause) ==
    /\ rdPc' = "exited"
    /\ rdMsg' = NoMsg
    /\ exitCause' = cause
    /\ exitMark' = Len(delivered)
    /\ UNCHANGED <<cancelled, cancelMark, connClosed>>

\* mainLoop leaves its loop (return or break) and the deferred c.Close()
\* runs: cancel, then c.c.Close() (1340, 356-364)
RdExit(cause) ==
    /\ rdPc' = "exited"
    /\ rdMsg' = NoMsg
    /\ exitCause' = cause
    /\ exitMark' = Len(delivered)
    /\ CancelCtx
    /\ connClosed' = TRUE

\* the non-blocking check of c.ctx.Done() at the top of the loop (1365-1371)
RdCheckCancel ==
    /\ rdPc = "top"
    /\ IF cancelled
       THEN RdExit("cancelled")
       ELSE /\ rdPc' = "readType"
            /\ UNCHANGED <<rdMsg, exitCause, exitMark, cancelMark, connVars>>
    /\ UNCHANGED <<hsVars, sessVars, neg, inVars, fx, nextId, parsed, sink, chanQ,
                   chClosed, delivered, ColorMap, wrVars>>

\* readBinaryWithContext of the type byte and the typeMap lookup (1373-1391)
RdReadType ==
    /\ rdPc = "readType"
    /\ \/ /\ ~connClosed
          /\ nextId < MaxMsgs
          /\ \E messageType \in MsgTypes :
                /\ nextId' = nextId + 1
                /\ IF messageType \in typeMap
                   THEN /\ rdPc' = "parse"
                        /\ rdMsg' = [id |-> nextId + 1, type |-> messageType]
                        /\ UNCHANGED <<exitCause, exitMark, cancelMark, connVars>>
                   ELSE RdExit("unknownType")
       \/ /\ RdExit("readError")
          /\ UNCHANGED nextId
       \/ /\ cancelled
          /\ RdExit("cancelled")
          /\ UNCHANGED nextId
    /\ UNCHANGED <<hsVars, sessVars, neg, inVars, fx, parsed, sink, chanQ, chClosed,
                   delivered, ColorMap, wrVars>>

\* what msg.Read may leave in c.ColorMap: SetColorMapEntriesMessage.Read
\* stores each entry as it reads it, the other messages store nothing
ColorMapAfterRead(type) == IF type = 1 THEN ColorMaps ELSE {ColorMap}

\* msg.Read(c, c.c), which reads from the stream without the context, and
\* the nil check of config.ServerMessageCh (1393-1405).  BellMessage.Read
\* reads nothing and cannot fail.
RdParse ==
    /\ rdPc = "parse"
    /\ \/ /\ rdMsg.type = 2 \/ ~connClosed
          /\ parsed' = Append(parsed, rdMsg)
          /\ ColorMap' \in ColorMapAfterRead(rdMsg.type)
          /\ IF sink = "nil"
             THEN rdPc' = "top" /\ rdMsg' = NoMsg
             ELSE rdPc' = "send" /\ rdMsg' = rdMsg
          /\ UNCHANGED <<exitCause, exitMark, cancelMark, connVars>>
       \/ /\ rdMsg.type # 2
          /\ ColorMap' \in ColorMapAfterRead(rdMsg.type)
          /\ RdExit("decodeError")
          /\ UNCHANGED parsed
    /\ UNCHANGED <<hsVars, sessVars, neg, inVars, fx, nextId, sink, chanQ, chClosed,
                   delivered, wrVars>>

\* the send that drops the message when the channel is full
RdSendOrDrop ==
    /\ rdPc = "send"
    /\ IF Len(chanQ) < ChanCap
       THEN /\ chanQ' = Append(chanQ, rdMsg)
            /\ delivered' = Append(delivered, rdMsg)
       ELSE UNCHANGED <<chanQ, delivered>>
    /\ rdPc' = "top"
    /\ rdMsg' = NoMsg
    /\ UNCHANGED <<hsVars, sessVars, connVars, neg, inVars, fx, nextId, parsed, sink,
                   chClosed, exitCause, exitMark, cancelMark, ColorMap, wrVars>>

\* select { case ServerMessageCh <- parsedMsg: case <-c.ctx.Done(): return }
\* (1407-1415): when both are ready Go picks either
RdSend ==
    /\ rdPc = "send"
    /\ \/ /\ Len(chanQ) < ChanCap
          /\ chanQ' = Append(chanQ, rdMsg)
          /\ delivered' = Append(delivered, rdMsg)
          /\ rdPc' = "top"
          /\ rdMsg' = NoMsg
          /\ UNCHANGED <<exitCause, exitMark, cancelMark, connVars>>
       \/ /\ cancelled
          /\ RdExit("cancelled")
          /\ UNCHANGED <<chanQ, delivered>>
    /\ UNCHANGED <<hsVars, sessVars, neg, inVars, fx, nextId, parsed, sink, chClosed,
                   ColorMap, wrVars>>

\* the caller receives from config.ServerMessageCh
RdReceive ==
    /\ chanQ # <<>>
    /\ chanQ' = Tail(chanQ)
    /\ UNCHANGED <<hsVars, sessVars, connVars, neg, inVars, fx, rdPc, rdMsg, nextId,
                   parsed, sink, chClosed, delivered, exitCause, exitMark,
                   cancelMark, ColorMap, wrVars>>

\* the context the connection was created with is cancelled or times out
RdCancel ==
    /\ ~cancelled
    /\ CancelCtx
    /\ UNCHANGED <<hsVars, sessVars, connClosed, neg, inVars, fx, rdPc, rdMsg, nextId,
                   parsed, sink, chanQ, chClosed, delivered, exitCause,
                   exitMark, ColorMap, wrVars>>

\* the caller calls ClientConn.Close (356-364)
Close ==
    /\ ~connClosed
    /\ CancelCtx
    /\ connClosed' = TRUE
    /\ UNCHANGED <<hsVars, sessVars, neg, inVars, fx, rdPc, rdMsg, nextId, parsed, sink,
                   chanQ, chClosed, delivered, exitCause, exitMark, ColorMap,
                   wrVars>>

RdNext ==
    \/ RdCheckCancel
    \/ RdReadType
    \/ RdParse
    \/ RdSend
    \/ RdReceive
    \/ RdCancel
    \/ Close

SpecRead == RdInit /\ [][RdNext]_vars


C10_ExitClosesQueue ==
    (rdPc = "exited" /\ sink = "chan"
        /\ exitCause \in {"readError", "unknownType", "decodeError"}) =>
        connClosed /\ chClosed

C10_Witness ==
    /\ rdPc = "exited" /\ sink = "chan" /\ exitCause = "unknownType"
    /\ connClosed /\ ~chClosed /\ chanQ = <<>> /\ Len(delivered) = 1


(***************************************************************************)
(* SpecWrite: client-message calls made concurrently on an established     *)
(* connection.  A frame is the sequence of byte values the method builds.  *)
(***************************************************************************)
\* binary.Write, big endian
U16(x) == <<(x \div 256) % 256, x % 256>>
U32(x) == <<(x \div 16777216) % 256, (x \div 65536) % 256,
            (x \div 256) % 256, x % 256>>
\* an int32 in two's complement
I32(x) ==
    IF x >= 0 THEN U32(x)
    ELSE LET y == (x + 2147483647) + 1
         IN <<128 + (y \div 16777216), (y \div 65536) % 256,
              (y \div 256) % 256, y % 256>>
Bool8(b) == IF b THEN 1 ELSE 0

\* uint8(char) for a character of the text
ByteOf(tok) == CodePoint(tok) % 256

RECURSIVE Concat(_)
Concat(ss) == IF ss = <<>> THEN <<>> ELSE Head(ss) \o Concat(Tail(ss))

\* a writePixelFormat that returns its buffer as it stands
writePixelFormatUnpadded(format) ==
    <<format.BPP, format.Depth, Bool8(format.BigEndian), Bool8(format.TrueColor)>>
    \o (IF format.TrueColor
        THEN U16(format.RedMax) \o U16(format.GreenMax) \o U16(format.BlueMax)
             \o <<format.RedShift, format.GreenShift, format.BlueShift>>
        ELSE <<>>)

\* writePixelFormat: 16 bytes, the max and shift fields written only for
\* true colour, the rest of the 16 left zero
writePixelFormat(format) ==
    <<format.BPP, format.Depth, Bool8(format.BigEndian), Bool8(format.TrueColor)>>
    \o (IF format.TrueColor
        THEN U16(format.RedMax) \o U16(format.GreenMax) \o U16(format.BlueMax)
             \o <<format.RedShift, format.GreenShift, format.BlueShift>>
        ELSE <<0, 0, 0, 0, 0, 0, 0, 0, 0>>)
    \o <<0, 0, 0>>

\* InputValidator.ValidateEncodingType, ValidateKeySymbol,
\* ValidatePointerPosition: TRUE when they return nil
ValidateEncodingType(t) == ~(t > 1000000) /\ ~(t < -1000000)
ValidateKeySymbol(keysym) == ~(keysym = 0) /\ ~(keysym > 33554431)
\* the check with the edge of the framebuffer taken as inside
ValidatePointerPositionInclusive(x, y, fbWidth, fbHeight) ==
    ~(x > fbWidth \/ y > fbHeight)
ValidatePointerPosition(x, y, fbWidth, fbHeight) == ~(x >= fbWidth \/ y >= fbHeight)

MaxClipboardLength == 1048576
Latin1MaxCodePoint == 255
maxEncodings == 100

\* a call: the method and its arguments (n: the numeric ones, in order)
Call(method, n, format, text) ==
    [method |-> method, n |-> n, format |-> format, text |-> text]

\* the error a method returns before it writes anything, or NoErr
Validate(call) ==
    CASE call.method = "SetPixelFormat" ->
            IF ValidatePixelFormat(call.format) THEN NoErr
            ELSE <<"Validation", "Validation">>
      [] call.method = "SetEncodings" ->
            IF Len(call.n) > maxEncodings THEN <<"Validation">>
            ELSE IF \E i \in 1..Len(call.n) : ~ValidateEncodingType(call.n[i])
                 THEN <<"Validation", "Validation">>
            ELSE NoErr
      [] call.method = "KeyEvent" ->
            IF ValidateKeySymbol(call.n[1]) THEN NoErr
            ELSE <<"Validation", "Validation">>
      [] call.method = "PointerEvent" ->
            IF ValidatePointerPosition(call.n[2], call.n[3], fbW, fbH) THEN NoErr
            ELSE <<"Validation", "Validation">>
      [] call.method = "CutText" ->
            IF ~ValidateTextData(call.text, MaxClipboardLength)
            THEN <<"Validation", "Validation">>
            ELSE IF \E i \in 1..Len(call.text) :
                        CodePoint(SanitizeText(call.text)[i]) > Latin1MaxCodePoint
                 THEN <<"Validation">>
            ELSE NoErr
      [] OTHER -> NoErr

\* the buffer a method hands to writeWithContext
Frame(call) ==
    CASE call.method = "SetPixelFormat" ->
            <<0, 0, 0, 0>> \o writePixelFormat(call.format)
      [] call.method = "SetEncodings" ->
            <<2, 0>> \o U16(Len(call.n))
            \o Concat([i \in 1..Len(call.n) |-> I32(call.n[i])])
      [] call.method = "FramebufferUpdateRequest" ->
            <<3, call.n[1]>> \o U16(call.n[2]) \o U16(call.n[3])
            \o U16(call.n[4]) \o U16(call.n[5])
      [] call.method = "KeyEvent" ->
            <<4, call.n[2], 0, 0>> \o U32(call.n[1])
      [] call.method = "PointerEvent" ->
            <<5, call.n[1] % 256>> \o U16(call.n[2]) \o U16(call.n[3])
      [] call.method = "CutText" ->
            \* buf.Bytes()[0:dataLength] with dataLength = 8 + len(text):
            \* the header with len(text), a byte for each character, and
            \* the zero bytes of the buffer's array up to dataLength
            LET text == SanitizeText(call.text)
                built == <<6, 0, 0, 0>> \o U32(StrLen(text))
                         \o [i \in 1..Len(text) |-> ByteOf(text[i])]
                dataLength == 8 + StrLen(text)
            IN built \o [i \in 1..(dataLength - Len(built)) |-> 0]

\* the calls a caller may make: each method with arguments it accepts, and
\* a call whose arguments do not validate
Calls ==
    {Call("SetPixelFormat", <<>>, PF(16, 16, TRUE, TRUE, 31, 63, 31, 11, 5, 0), <<>>),
     Call("SetEncodings", <<-239, 1>>, ZeroPF, <<>>),
     Call("FramebufferUpdateRequest", <<1, 0, 0, 4, 300>>, ZeroPF, <<>>),
     Call("KeyEvent", <<65293, 1>>, ZeroPF, <<>>),
     Call("PointerEvent", <<1, 3, 0>>, ZeroPF, <<>>),
     Call("PointerEvent", <<1, 4, 0>>, ZeroPF, <<>>),
     Call("CutText", <<>>, ZeroPF, <<"d", "TAB">>),
     Call("CutText", <<>>, ZeroPF, <<"U+00E9">>),
     Call("CutText", <<>>, ZeroPF, <<"U+20AC">>)}

\* a frame handed to the stream as its header and its body, separately
WriteCallsSplit(data) ==
    IF Len(data) > 4 THEN <<SubSeq(data, 1, 4), SubSeq(data, 5, Len(data))>>
    ELSE <<data>>

\* writeWithContext: the Write calls it makes on the stream for data: one
WriteCalls(data) == <<data>>


Callers == 1..MaxWrites

WrInit ==
    /\ Established
    /\ rdPc = "top" /\ rdMsg = NoMsg /\ nextId = 0 /\ parsed = <<>>
    /\ sink = "nil" /\ chanQ = <<>> /\ chClosed = FALSE /\ delivered = <<>>
    /\ exitCause = "none" /\ cancelMark = -1 /\ exitMark = -1
    /\ ColorMap = [i \in 0..(ColorMapSize - 1) |-> Color(i * 257, i * 257, i * 257)]
    /\ NegIdle /\ WrIdle /\ InIdle

WrRest == <<hsVars, sessVars, connVars, neg, inVars, fx, rdVars>>

\* a method that hands its frame to the stream and checks the arguments
\* afterwards
RejectedAfterWrite(call) ==
    [NoCall EXCEPT !.pc = "queued", !.call = call,
                   !.ret = "err", !.err = Validate(call),
                   !.buf = Frame(call), !.writes = <<Frame(call)>>]

\* a call whose arguments do not validate: the method returns the error
\* from a point ahead of its writeWithContext
Rejected(call) ==
    [NoCall EXCEPT !.pc = "returned", !.call = call,
                   !.ret = "err", !.err = Validate(call)]

\* a caller enters a client-message method: validation, then the buffer is
\* built and writeWithContext starts the goroutine that will call c.c.Write
WrCall(w) ==
    /\ wr[w].pc = "idle"
    /\ \E call \in Calls :
          wr' = [wr EXCEPT ![w] =
                    IF Validate(call) # NoErr
                    THEN Rejected(call)
                    ELSE [NoCall EXCEPT !.pc = "queued", !.call = call,
                                        !.buf = Frame(call),
                                        !.writes = WriteCalls(Frame(call))]]
    /\ UNCHANGED <<wireOut, connWriter, Encs, WrRest>>

\* c.c.Write(data) begins: the stream admits one Write at a time
WrAcquire(w) ==
    /\ wr[w].pc = "queued"
    /\ connWriter = 0
    /\ ~connClosed
    /\ connWriter' = w
    /\ wr' = [wr EXCEPT ![w].pc = "writing", ![w].pos = 0]
    /\ UNCHANGED <<wireOut, Encs, WrRest>>

\* the stream takes the next bytes of the Write in progress, at most SegLen
\* of them; after the last one the Write call returns
WrBytes(w) ==
    /\ wr[w].pc = "writing"
    /\ connWriter = w
    /\ ~connClosed
    /\ LET data == wr[w].writes[1]
           upto == IF wr[w].pos + SegLen < Len(data) THEN wr[w].pos + SegLen
                   ELSE Len(data)
           last == upto = Len(data)
       IN /\ wireOut' = wireOut \o [i \in 1..(upto - wr[w].pos) |->
                                      [w |-> w, b |-> data[wr[w].pos + i]]]
          /\ connWriter' = IF last THEN 0 ELSE w
          /\ wr' = [wr EXCEPT
                      ![w].pos = IF last THEN 0 ELSE upto,
                      ![w].writes = IF last THEN Tail(@) ELSE @,
                      ![w].pc = IF ~last THEN "writing"
                                ELSE IF Len(wr[w].writes) = 1 THEN "written"
                                ELSE "queued"]
    /\ UNCHANGED <<Encs, WrRest>>

\* c.c.Write returns an error: the stream fails or has been closed
WrFail(w) ==
    /\ wr[w].pc \in {"queued", "writing"}
    /\ connWriter \in {0, w}
    /\ wr[w].pc = "writing" => connWriter = w
    /\ connWriter' = 0
    /\ wr' = [wr EXCEPT ![w].pc = "returned",
                        ![w].ret = IF @ = "pending" THEN "err" ELSE @,
                        ![w].err = IF wr[w].ret = "pending"
                                   THEN <<"Network">> ELSE @]
    /\ UNCHANGED <<wireOut, Encs, WrRest>>

\* writeWithContext returns ctx.Err() while its goroutine goes on writing
WrReturnCtx(w) ==
    /\ wr[w].pc \in {"queued", "writing"}
    /\ wr[w].ret = "pending"
    /\ cancelled
    /\ wr' = [wr EXCEPT ![w].ret = "err", ![w].err = <<"Network">>]
    /\ UNCHANGED <<wireOut, connWriter, Encs, WrRest>>

\* a method that takes the write for done whatever writeWithContext
\* returned
ReachesEndAlways(w) == TRUE

\* the method gets nil from writeWithContext and goes on to its last
\* statements: it has not returned ctx.Err() meanwhile
ReachesEnd(w) == wr[w].ret = "pending"

\* a SetPixelFormat that leaves the table as it is
ColorMapKept == {ColorMap}

\* c.ColorMap = newColorMap (1019-1020), a copy of the whole array made
\* without a lock.  While the reader is inside
\* SetColorMapEntriesMessage.Read, which stores entries without a lock too,
\* the two race: an entry that message covers may keep what the reader
\* stores, whole or in part.
TornColor == Color(65535, 65535, 0)
ColorMapAfterReset ==
    IF rdPc = "parse" /\ rdMsg.type = 1
    THEN ColorMaps \cup {[ZeroColorMap EXCEPT ![i] = TornColor] : i \in 0..1}
    ELSE {ZeroColorMap}

\* the write is through; the method returns nil if it has not returned yet,
\* SetEncodings after storing c.Encs, SetPixelFormat after resetting
\* c.ColorMap
WrReturn(w) ==
    /\ wr[w].pc = "written"
    /\ wr' = [wr EXCEPT ![w].pc = "returned",
                        ![w].ret = IF @ = "pending" THEN "ok" ELSE @]
    /\ Encs' = IF ReachesEnd(w) /\ wr[w].call.method = "SetEncodings"
               THEN wr[w].call.n ELSE Encs
    /\ ColorMap' \in IF ReachesEnd(w) /\ wr[w].call.method = "SetPixelFormat"
                      THEN ColorMapAfterReset ELSE {ColorMap}
    /\ UNCHANGED <<wireOut, connWriter, hsVars, sessVars, connVars, neg, inVars, fx, rdPc,
                   rdMsg, nextId, parsed, sink, chanQ, chClosed, delivered,
                   exitCause, cancelMark, exitMark>>

WrNext ==
    \/ \E w \in Callers : WrCall(w)
    \/ \E w \in Callers : WrAcquire(w)
    \/ \E w \in Callers : WrBytes(w)
    \/ \E w \in Callers : WrFail(w)
    \/ \E w \in Callers : WrReturnCtx(w)
    \/ \E w \in Callers : WrReturn(w)
    \/ RdCancel
    \/ Close

SpecWrite == WrInit /\ [][WrNext]_vars


(***************************************************************************)
(* Properties of the writers (SpecWrite).                                  *)
(***************************************************************************)
\* where on the wire the bytes of caller w are, and where a run of them
\* starts
WireOf(w) == {i \in 1..Len(wireOut) : wireOut[i].w = w}
RunStart(w) ==
    CHOOSE i \in 1..Len(wireOut) :
        wireOut[i].w = w /\ (i = 1 \/ wireOut[i - 1].w # w)

C17_ValidationWritesNothing ==
    \A w \in Callers :
        GetErrorCode(wr[w].err) = "Validation" =>
            /\ WireOf(w) = {}
            /\ wr[w].buf = <<>> /\ wr[w].writes = <<>>
            /\ wr[w].pc = "returned" /\ wr[w].ret = "err"

\* CutText of a character beyond Latin-1 is rejected in the loop over the
\* characters, after the header went to the buffer, while another caller's
\* KeyEvent is whole on the wire
C17_Witness ==
    /\ wr[1].pc = "returned" /\ wr[1].err = <<"Validation">>
    /\ wr[1].call.method = "CutText" /\ wr[1].call.text = <<"U+20AC">>
    /\ wr[2].ret = "ok" /\ wr[2].call.method = "KeyEvent"
    /\ Len(wireOut) = 8 /\ WireOf(1) = {}

\* the frame of the message table for a call: the type byte, the padding and
\* the fields in big-endian order; a pixel format is its 16 bytes, a text is
\* one byte for each of its characters, the length their number
TableFrame(call) ==
    CASE call.method = "SetPixelFormat" ->
            <<0>> \o <<0, 0, 0>>
            \o <<call.format.BPP, call.format.Depth,
                 Bool8(call.format.BigEndian), Bool8(call.format.TrueColor)>>
            \o U16(call.format.RedMax) \o U16(call.format.GreenMax)
            \o U16(call.format.BlueMax)
            \o <<call.format.RedShift, call.format.GreenShift,
                 call.format.BlueShift>>
            \o <<0, 0, 0>>
      [] call.method = "SetEncodings" ->
            <<2>> \o <<0>> \o U16(Len(call.n))
            \o Concat([i \in 1..Len(call.n) |-> I32(call.n[i])])
      [] call.method = "FramebufferUpdateRequest" ->
            <<3>> \o <<call.n[1]>> \o U16(call.n[2]) \o U16(call.n[3])
            \o U16(call.n[4]) \o U16(call.n[5])
      [] call.method = "KeyEvent" ->
            <<4>> \o <<call.n[2]>> \o <<0, 0>> \o U32(call.n[1])
      [] call.method = "PointerEvent" ->
            <<5>> \o <<call.n[1]>> \o U16(call.n[2]) \o U16(call.n[3])
      [] call.method = "CutText" ->
            <<6>> \o <<0, 0, 0>> \o U32(Len(call.text))
            \o [i \in 1..Len(call.text) |-> CodePoint(call.text[i])]

\* the bytes of caller w on the wire, in order
WireBytes(w) ==
    LET n == Cardinality(WireOf(w))
    IN IF n = 0 THEN <<>>
       ELSE [i \in 1..n |-> wireOut[RunStart(w) + i - 1].b]

\* C19: a call that returned nil has put on the wire exactly the frame of
\* the message table for its arguments, of 20 bytes for SetPixelFormat, 10
\* for FramebufferUpdateRequest, 8 for KeyEvent, 6 for PointerEvent, 4 + 4n
\* for SetEncodings and 8 + len for ClientCutText.
C19_FramesExact ==
    \A w \in Callers :
        wr[w].ret = "ok" =>
            /\ WireBytes(w) = TableFrame(wr[w].call)
            /\ Len(WireBytes(w)) =
                  CASE wr[w].call.method = "SetPixelFormat" -> 20
                    [] wr[w].call.method = "SetEncodings" -> 4 + 4 * Len(wr[w].call.n)
                    [] wr[w].call.method = "FramebufferUpdateRequest" -> 10
                    [] wr[w].call.method = "KeyEvent" -> 8
                    [] wr[w].call.method = "PointerEvent" -> 6
                    [] OTHER -> 8 + Len(wr[w].call.text)

\* the same for the five methods other than CutText, and for CutText of
\* ASCII text
FramesExactButLatin1 ==
    \A w \in Callers :
        (wr[w].ret = "ok" /\ StrLen(wr[w].call.text) = Len(wr[w].call.text)) =>
            WireBytes(w) = TableFrame(wr[w].call)

\* CutText of the one character U+00E9 returned nil with ten bytes on the
\* wire: the length 2 and, after the byte E9, a zero byte
C19_Witness ==
    /\ wr[1].ret = "ok" /\ wr[1].call.method = "CutText"
    /\ wr[1].call.text = <<"U+00E9">>
    /\ WireBytes(1) = <<6, 0, 0, 0, 0, 0, 0, 2, 233, 0>>
    /\ TableFrame(wr[1].call) = <<6, 0, 0, 0, 0, 0, 0, 1, 233>>
    /\ wr[2].ret = "ok" /\ wr[2].call.method = "SetEncodings"
    /\ WireBytes(2) = <<2, 0, 0, 2, 255, 255, 255, 17, 0, 0, 0, 1>>


(***************************************************************************)
(* SpecSess: a caller of the client-message methods beside the reader      *)
(* task, on one established connection without a message channel.          *)
(***************************************************************************)
SessInit ==
    /\ Established
    /\ rdPc = "top" /\ rdMsg = NoMsg /\ nextId = 0 /\ parsed = <<>>
    /\ sink = "nil" /\ chanQ = <<>> /\ chClosed = FALSE /\ delivered = <<>>
    /\ exitCause = "none" /\ cancelMark = -1 /\ exitMark = -1
    /\ ColorMap = ZeroColorMap
    /\ NegIdle /\ WrIdle /\ InIdle

SessNext ==
    \/ WrCall(1)
    \/ WrAcquire(1)
    \/ WrBytes(1)
    \/ WrFail(1)
    \/ WrReturnCtx(1)
    \/ WrReturn(1)
    \/ RdCheckCancel
    \/ RdReadType
    \/ RdParse
    \/ RdCancel
    \/ Close

SpecSess == SessInit /\ [][SessNext]_vars

(***************************************************************************)
(* Properties of a caller beside the reader (SpecSess).                    *)
(***************************************************************************)
\* C18: no step of a call that fails -- rejected arguments, an error of
\* the stream's Write, the context done while the write is under way --
\* closes the stream, cancels the context, moves or stops the reader, or
\* changes the encodings, the colour map, the pixel format, the dimensions
\* or the name of the session.
C18_FailedCallKeepsSession ==
    [][\A w \in Callers :
          (wr'[w] # wr[w] /\ wr'[w].ret = "err") =>
              UNCHANGED <<connVars, rdVars, sessVars, Encs>>]_vars

\* SetPixelFormat failed on the stream's Write after part of its frame went
\* out; the stream is open, the context live, the reader inside its second
\* message, and the colour map still what the first message made it
C18_Witness ==
    /\ wr[1].pc = "returned" /\ wr[1].err = <<"Network">>
    /\ wr[1].call.method = "SetPixelFormat"
    /\ Len(wireOut) = SegLen
    /\ ColorMap # ZeroColorMap /\ Encs = <<>>
    /\ ~connClosed /\ ~cancelled
    /\ rdPc = "parse" /\ Len(parsed) = 1 /\ parsed[1].type = 1

\* a SetPixelFormat call returns nil in this step
SetPixelFormatReturns(w) ==
    /\ wr[w].call.method = "SetPixelFormat"
    /\ wr[w].ret = "pending" /\ wr'[w].ret = "ok"

\* the reader is inside SetColorMapEntriesMessage.Read
InSetColorMapEntries == rdPc = "parse" /\ rdMsg.type = 1

MaxSends == 2      \* most messages the server writes to the stream

\* binary.Read, big endian
BeU16(b) == b[1] * 256 + b[2]
\* a uint32; every value of 2^31 and more is beyond each maximum the code
\* compares a length with, and stands as 2^31 - 1
BeU32(b) ==
    IF b[1] >= 128 THEN 2147483647
    ELSE ((b[1] * 256 + b[2]) * 256 + b[3]) * 256 + b[4]
\* an int32 in two's complement
BeI32(b) ==
    IF b[1] < 128 THEN BeU32(b)
    ELSE ((((b[1] - 255) * 256 + (b[2] - 255)) * 256 + (b[3] - 255)) * 256
          + (b[4] - 255)) - 1

MaxRectanglesPerUpdate == 10000
MaxServerClipboardLength == 10485760

\* InputValidator.ValidateRectangle and ValidateColorMapEntries, in uint16
\* arithmetic: TRUE when they return nil
\* the check of the rectangle's origin alone
ValidateRectangleOrigin(x, y, width, height, fbWidth, fbHeight) ==
    /\ ~(width = 0 \/ height = 0)
    /\ x < fbWidth /\ y < fbHeight

ValidateRectangle(x, y, width, height, fbWidth, fbHeight) ==
    /\ ~(width = 0 \/ height = 0)
    /\ ~(x > 65535 - width \/ y > 65535 - height)
    /\ ~((x + width) % 65536 > fbWidth \/ (y + height) % 65536 > fbHeight)

ValidateColorMapEntries(firstColor, numColors, maxColors) ==
    /\ ~(numColors = 0)
    /\ ~(firstColor > 65535 - numColors)
    /\ ~((firstColor + numColors) % 65536 > maxColors)

\* a table of the configured encodings alone
encMapConfigured == {Encs[i] : i \in 1..Len(Encs)}

\* the keys of encMap in FramebufferUpdateMessage.Read: c.Encs, then Raw,
\* Cursor and DesktopSize
encMap == {Encs[i] : i \in 1..Len(Encs)} \cup {0, -239, -223}

\* the bytes enc.Read takes from the stream for a rectangle: Raw the
\* pixels, CopyRect two uint16, Cursor the pixels and the mask, DesktopSize
\* nothing
EncNeed(enc, rect) ==
    CASE enc = 0 -> rect.w * rect.h * (pixelFormat.BPP \div 8)
      [] enc = 1 -> 4
      [] enc = -239 ->
            IF rect.w = 0 /\ rect.h = 0 THEN 0
            ELSE rect.w * rect.h * (pixelFormat.BPP \div 8)
                 + ((rect.w + 7) \div 8) * rect.h
      [] OTHER -> 0

\* the error enc.Read returns without reading, or NoErr
EncRejects(enc, rect) ==
    CASE enc = -239 ->
            IF ~(rect.w = 0 /\ rect.h = 0) /\ (rect.w > 256 \/ rect.h > 256)
            THEN <<"Encoding", "Encoding">> ELSE NoErr
      [] enc = -223 ->
            IF \/ rect.w = 0 \/ rect.h = 0
               \/ rect.w > 32767 \/ rect.h > 32767
               \/ rect.w * rect.h > 104857600
            THEN <<"Encoding", "Validation">> ELSE NoErr
      [] OTHER -> NoErr

\* the error enc.Read returns for what it has read, or NoErr
EncRejectsData(enc, data) ==
    IF enc = 1 /\ (BeU16(SubSeq(data, 1, 2)) > 32767
                   \/ BeU16(SubSeq(data, 3, 4)) > 32767)
    THEN <<"Encoding", "Encoding">> ELSE NoErr

\* ---- what a server writes (RFC 6143 7.6, as the comments on each Read
\* give the wire format) ----
Rect(x, y, w, h, enc, data) ==
    U16(x) \o U16(y) \o U16(w) \o U16(h) \o I32(enc) \o data
FramebufferUpdate(rects) ==
    <<0, 0>> \o U16(Len(rects)) \o Concat(rects)
SetColorMapEntries(first, colors) ==
    <<1, 0>> \o U16(first) \o U16(Len(colors))
    \o Concat([i \in 1..Len(colors) |->
                 U16(colors[i][1]) \o U16(colors[i][2]) \o U16(colors[i][3])])
Bell == <<2>>
ServerCutText(text) == <<3, 0, 0, 0>> \o U32(Len(text)) \o text

Red   == Color(65535, 0, 0)
Green == Color(0, 65535, 0)

ServerMsgs ==
    {FramebufferUpdate(<<Rect(0, 0, 1024, 768, -223, <<>>)>>),
     FramebufferUpdate(<<Rect(3, 3, 1, 1, 0, <<1, 2, 3, 4>>)>>),
     FramebufferUpdate(<<Rect(3, 0, 2, 1, 0, <<>>)>>),
     FramebufferUpdate(<<Rect(0, 0, 2, 2, -223, <<>>),
                         Rect(0, 0, 3, 1, 0, <<>>)>>),
     FramebufferUpdate(<<Rect(0, 0, 1, 1, 1, <<0, 2, 0, 2>>)>>),
     FramebufferUpdate(<<Rect(1, 2, 1, 1, -239, <<9, 9, 9, 9, 128>>)>>),
     FramebufferUpdate(<<Rect(0, 0, 1, 1, 5, <<>>)>>),
     FramebufferUpdate(<<Rect(0, 0, 1, 1, 2000000, <<>>)>>),
     SetColorMapEntries(1, <<Red, Green>>),
     SetColorMapEntries(255, <<Red, Green>>),
     Bell,
     ServerCutText(<<100>>),
     <<3, 0>> \o U32(1) \o <<100>>,
     <<99>>}


MsgInit ==
    /\ Established
    /\ rdPc = "top" /\ rdMsg = NoMsg /\ nextId = 0 /\ parsed = <<>>
    /\ sink \in {"nil", "chan"}
    /\ chanQ = <<>> /\ chClosed = FALSE /\ delivered = <<>>
    /\ exitCause = "none" /\ cancelMark = -1 /\ exitMark = -1
    /\ ColorMap = ZeroColorMap
    /\ NegIdle /\ InIdle
    /\ wr = [w \in 1..MaxWrites |-> NoCall]
    /\ wireOut = <<>> /\ connWriter = 0
    /\ Encs = <<1>>

SrvRest == <<hsVars, sessVars, connVars, neg, readErr, fx, rdVars, wrVars>>

\* the server writes one message
SrvSend ==
    /\ ~connIn.eof
    /\ connIn.n < MaxSends
    /\ \E m \in ServerMsgs :
          connIn' = [connIn EXCEPT !.sent = @ \o m, !.n = @ + 1]
    /\ UNCHANGED SrvRest

\* the server writes the beginning of a message, up to the end of a colour
\* triple's worth of bytes, and nothing after it
SrvSendPart ==
    /\ ~connIn.eof
    /\ connIn.n < MaxSends
    /\ \E m \in ServerMsgs : \E k \in 1..(Len(m) - 1) :
          /\ k % 6 = 0
          /\ connIn' = [connIn EXCEPT !.sent = @ \o SubSeq(m, 1, k),
                                      !.n = MaxSends]
    /\ UNCHANGED SrvRest

\* the server closes the stream
SrvClose ==
    /\ ~connIn.eof
    /\ connIn' = [connIn EXCEPT !.eof = TRUE]
    /\ UNCHANGED SrvRest

\* ---- reads of c.c: io.ReadFull and binary.Read block until the bytes are
\* there, the server has closed, or the connection is closed ----
Avail     == Len(connIn.sent) - connIn.pos
Ready(n)  == ~connClosed /\ Avail >= n
Broken(n) == connClosed \/ (connIn.eof /\ Avail < n)
Take(n)   == SubSeq(connIn.sent, connIn.pos + 1, connIn.pos + n)
Consume(n) == connIn' = [connIn EXCEPT !.pos = @ + n]
ReadBroken ==
    connIn' = [connIn EXCEPT !.pos = IF connClosed THEN @ ELSE Len(connIn.sent)]

NoRect == [x |-> 0, y |-> 0, w |-> 0, h |-> 0, enc |-> 0]

MsgKeeps == <<hsVars, pixelFormat, desktopName, neg, fx, sink, chanQ, chClosed,
              delivered, wrVars>>

\* msg.Read returned the message: mainLoop goes on to the channel, or to
\* the top of the loop when there is none (1399-1406)
MsgDone(msg) ==
    /\ parsed' = Append(parsed, msg)
    /\ readErr' = NoErr
    /\ IF sink = "nil"
       THEN rdPc' = "top" /\ rdMsg' = NoMsg
       ELSE rdPc' = "send" /\ rdMsg' = msg
    /\ UNCHANGED <<exitCause, exitMark, cancelMark, connVars>>

\* msg.Read returned an error: mainLoop logs it and breaks (1392-1397)
MsgFail(err) ==
    /\ readErr' = err
    /\ RdExit("decodeError")
    /\ UNCHANGED parsed

\* msg.Read goes on to its next read
MsgGoOn(at, msg) ==
    /\ rdPc' = at
    /\ rdMsg' = msg
    /\ UNCHANGED <<parsed, readErr, exitCause, exitMark, cancelMark, connVars>>

\* readBinaryWithContext of the type byte, the typeMap lookup and the call
\* of msg.Read (1373-1391); BellMessage.Read reads nothing
MsgReadType ==
    /\ rdPc = "readType"
    /\ \/ /\ Ready(1)
          /\ Consume(1)
          /\ nextId' = nextId + 1
          /\ LET messageType == Take(1)[1]
                 msg == [id |-> nextId + 1, type |-> messageType,
                         start |-> connIn.pos, end |-> connIn.pos + 1,
                         n |-> 0, first |-> 0, items |-> <<>>,
                         rect |-> NoRect]
             IN IF messageType \notin typeMap
                THEN RdExit("unknownType") /\ UNCHANGED <<parsed, readErr>>
                ELSE IF messageType = 2 THEN MsgDone(msg)
                ELSE MsgGoOn("head", msg)
       \/ /\ Broken(1)
          /\ ReadBroken
          /\ RdExit("readError")
          /\ UNCHANGED <<nextId, parsed, readErr>>
       \/ /\ cancelled
          /\ RdExit("cancelled")
          /\ UNCHANGED <<connIn, nextId, parsed, readErr>>
    /\ UNCHANGED <<MsgKeeps, fbW, fbH, ColorMap>>


\* FramebufferUpdateMessage.Read, the padding and the rectangle count
\* (148-161)
FbuReadHead ==
    /\ rdPc = "head" /\ rdMsg.type = 0
    /\ \/ /\ Ready(3)
          /\ Consume(3)
          /\ LET numRects == BeU16(SubSeq(Take(3), 2, 3))
                 msg == [rdMsg EXCEPT !.n = numRects, !.end = connIn.pos + 3]
             IN IF numRects > MaxRectanglesPerUpdate
                THEN MsgFail(<<"Protocol">>)
                ELSE IF numRects = 0 THEN MsgDone(msg)
                ELSE MsgGoOn("rect", msg)
       \/ /\ Broken(3)
          /\ ReadBroken
          /\ MsgFail(<<"Network">>)
    /\ UNCHANGED <<MsgKeeps, nextId, fbW, fbH, ColorMap>>

\* the rectangle is decoded: a pseudo-encoding's Handle runs
\* (DesktopSizePseudoEncoding.Handle stores the dimensions), the rectangle
\* is stored with the dimensions it was validated against, and the loop
\* goes on to the next rectangle or Read returns (215-230)
FbuRectDone(rect, used, fbWidth, fbHeight) ==
    LET msg == [rdMsg EXCEPT
                  !.items = Append(@, [rect |-> rect, fbW |-> fbWidth,
                                       fbH |-> fbHeight]),
                  !.rect = NoRect,
                  !.end = connIn.pos + used]
    IN /\ fbW' = IF rect.enc = -223 THEN rect.w ELSE fbW
       /\ fbH' = IF rect.enc = -223 THEN rect.h ELSE fbH
       /\ IF Len(msg.items) = msg.n THEN MsgDone(msg)
          ELSE MsgGoOn("rect", msg)

\* the dimensions the session had when the handshake ended
FrameBufferSizeAtServerInit == <<loc.w, loc.h>>

\* c.FrameBufferWidth, c.FrameBufferHeight as Read passes them to
\* ValidateRectangle (203-204)
FrameBufferSize == <<fbW, fbH>>

\* every rectangle is checked against the framebuffer
BoundsCheckedAlways(encodingType) == TRUE

\* the pseudo-encodings are the negative types (201)
BoundsChecked(encodingType) == ~(encodingType < 0)

\* the header of a rectangle, its validation and the lookup of its
\* encoding (179-213); an encoding that reads nothing is decoded at once
FbuReadRect ==
    /\ rdPc = "rect"
    /\ \/ /\ Ready(12)
          /\ Consume(12)
          /\ LET b == Take(12)
                 rect == [x |-> BeU16(SubSeq(b, 1, 2)),
                          y |-> BeU16(SubSeq(b, 3, 4)),
                          w |-> BeU16(SubSeq(b, 5, 6)),
                          h |-> BeU16(SubSeq(b, 7, 8)),
                          enc |-> BeI32(SubSeq(b, 9, 12))]
             IN IF ~ValidateEncodingType(rect.enc)
                THEN MsgFail(<<"Protocol", "Validation">>)
                     /\ UNCHANGED <<fbW, fbH>>
                ELSE IF /\ BoundsChecked(rect.enc)
                        /\ ~ValidateRectangle(rect.x, rect.y, rect.w, rect.h,
                                              FrameBufferSize[1],
                                              FrameBufferSize[2])
                THEN MsgFail(<<"Protocol", "Validation">>)
                     /\ UNCHANGED <<fbW, fbH>>
                ELSE IF rect.enc \notin encMap
                THEN MsgFail(<<"Unsupported">>) /\ UNCHANGED <<fbW, fbH>>
                ELSE IF EncRejects(rect.enc, rect) # NoErr
                THEN MsgFail(EncRejects(rect.enc, rect))
                     /\ UNCHANGED <<fbW, fbH>>
                ELSE IF EncNeed(rect.enc, rect) = 0
                THEN FbuRectDone(rect, 12, fbW, fbH)
                ELSE MsgGoOn("enc", [rdMsg EXCEPT !.rect = rect,
                                                  !.end = connIn.pos + 12])
                     /\ UNCHANGED <<fbW, fbH>>
       \/ /\ Broken(12)
          /\ ReadBroken
          /\ MsgFail(<<"Network">>)
          /\ UNCHANGED <<fbW, fbH>>
    /\ UNCHANGED <<MsgKeeps, nextId, ColorMap>>

\* enc.Read(c, rect, r): the bytes of the rectangle (216-219)
FbuReadEnc ==
    /\ rdPc = "enc"
    /\ LET need == EncNeed(rdMsg.rect.enc, rdMsg.rect)
       IN \/ /\ Ready(need)
             /\ Consume(need)
             /\ IF EncRejectsData(rdMsg.rect.enc, Take(need)) # NoErr
                THEN MsgFail(EncRejectsData(rdMsg.rect.enc, Take(need)))
                     /\ UNCHANGED <<fbW, fbH>>
                ELSE FbuRectDone(rdMsg.rect, need, fbW, fbH)
          \/ /\ Broken(need)
             /\ ReadBroken
             /\ MsgFail(<<"Encoding", "Encoding">>)
             /\ UNCHANGED <<fbW, fbH>>
    /\ UNCHANGED <<MsgKeeps, nextId, ColorMap>>


\* SetColorMapEntriesMessage.Read, the padding, the first index and the
\* count (361-378)
CmReadHead ==
    /\ rdPc = "head" /\ rdMsg.type = 1
    /\ \/ /\ Ready(5)
          /\ Consume(5)
          /\ LET b == Take(5)
                 FirstColor == BeU16(SubSeq(b, 2, 3))
                 numColors  == BeU16(SubSeq(b, 4, 5))
             IN IF ~ValidateColorMapEntries(FirstColor, numColors, ColorMapSize)
                THEN MsgFail(<<"Protocol", "Validation">>)
                ELSE MsgGoOn("color", [rdMsg EXCEPT !.first = FirstColor,
                                                    !.n = numColors,
                                                    !.end = connIn.pos + 5])
       \/ /\ Broken(5)
          /\ ReadBroken
          /\ MsgFail(<<"Network">>)
    /\ UNCHANGED <<MsgKeeps, nextId, fbW, fbH, ColorMap>>

\* one turn of the loop over the colours: R, G and B are read and
\* c.ColorMap[FirstColor+i] is stored (381-397)
CmReadColor ==
    /\ rdPc = "color"
    /\ \/ /\ Ready(6)
          /\ Consume(6)
          /\ LET b == Take(6)
                 color == Color(BeU16(SubSeq(b, 1, 2)), BeU16(SubSeq(b, 3, 4)),
                                BeU16(SubSeq(b, 5, 6)))
                 i == Len(rdMsg.items)
                 msg == [rdMsg EXCEPT !.items = Append(@, color),
                                      !.end = connIn.pos + 6]
             IN /\ ColorMap' = [ColorMap EXCEPT
                                  ![(rdMsg.first + i) % 65536] = color]
                /\ IF Len(msg.items) = msg.n THEN MsgDone(msg)
                   ELSE MsgGoOn("color", msg)
       \/ /\ Broken(6)
          /\ ReadBroken
          /\ MsgFail(<<"Network">>)
          /\ UNCHANGED ColorMap
    /\ UNCHANGED <<MsgKeeps, nextId, fbW, fbH>>

\* string(textBytes), checked by ValidateTextData and put through
\* SanitizeText when it fails the check (612-618), for text in ASCII: as
\* code points
ClipboardText(textBytes) ==
    [i \in 1..Len(textBytes) |->
        LET r == textBytes[i]
        IN CASE r = 9 \/ r = 10 \/ r = 13 -> r
             [] r < 32 -> 32
             [] r < 127 -> r
             [] OTHER -> 65533]

\* ServerCutTextMessage.Read, the padding and the length (593-605)
CtReadHead ==
    /\ rdPc = "head" /\ rdMsg.type = 3
    /\ \/ /\ Ready(5)
          /\ Consume(5)
          /\ LET textLength == BeU32(SubSeq(Take(5), 2, 5))
             IN IF ~ValidateMessageLength(textLength, MaxServerClipboardLength)
                THEN MsgFail(<<"Protocol", "Validation">>)
                ELSE MsgGoOn("text", [rdMsg EXCEPT !.n = textLength,
                                                   !.end = connIn.pos + 5])
       \/ /\ Broken(5)
          /\ ReadBroken
          /\ MsgFail(<<"Network">>)
    /\ UNCHANGED <<MsgKeeps, nextId, fbW, fbH, ColorMap>>

\* the text bytes (607-620)
CtReadText ==
    /\ rdPc = "text"
    /\ \/ /\ Ready(rdMsg.n)
          /\ Consume(rdMsg.n)
          /\ MsgDone([rdMsg EXCEPT !.items = ClipboardText(Take(rdMsg.n)),
                                   !.end = connIn.pos + rdMsg.n])
       \/ /\ Broken(rdMsg.n)
          /\ ReadBroken
          /\ MsgFail(<<"Network">>)
    /\ UNCHANGED <<MsgKeeps, nextId, fbW, fbH, ColorMap>>

MsgNext ==
    \/ SrvSend
    \/ SrvSendPart
    \/ SrvClose
    \/ RdCheckCancel
    \/ MsgReadType
    \/ FbuReadHead
    \/ FbuReadRect
    \/ FbuReadEnc
    \/ CmReadHead
    \/ CmReadColor
    \/ CtReadHead
    \/ CtReadText
    \/ RdSend
    \/ RdReceive
    \/ RdCancel
    \/ Close

SpecMsg == MsgInit /\ [][MsgNext]_vars


\* The Go scheduler runs the reader goroutine whenever it can take a step;
\* nothing obliges the server to write, the caller to receive, or anyone to
\* cancel or close.
SpecMsgLive ==
    /\ SpecMsg
    /\ WF_vars(RdCheckCancel)
    /\ WF_vars(MsgReadType)
    /\ WF_vars(FbuReadHead)
    /\ WF_vars(FbuReadRect)
    /\ WF_vars(FbuReadEnc)
    /\ WF_vars(CmReadHead)
    /\ WF_vars(CmReadColor)
    /\ WF_vars(CtReadHead)
    /\ WF_vars(CtReadText)
    /\ WF_vars(RdSend)


(***************************************************************************)
(* Properties of the reader, byte by byte (SpecMsg, SpecMsgLive).          *)
(***************************************************************************)
\* the reader is inside msg.Read
InBody == rdPc \in {"head", "rect", "enc", "color", "text"}

\* the bytes the read the reader is at waits for
Needs ==
    CASE rdPc = "readType" -> 1
      [] rdPc = "head" /\ rdMsg.type = 0 -> 3
      [] rdPc = "head" -> 5
      [] rdPc = "rect" -> 12
      [] rdPc = "enc" -> EncNeed(rdMsg.rect.enc, rdMsg.rect)
      [] rdPc = "color" -> 6
      [] rdPc = "text" -> rdMsg.n
      [] OTHER -> 0

\* C11: once c.ctx is done in the Running state, the reader exits and the
\* stream is closed, wherever the reader was: waiting for a type byte,
\* inside the read of a message body, or blocked on the channel.
C11_CancelExits == cancelled ~> (rdPc = "exited" /\ connClosed)

\* the context is done while the reader waits inside RawEncoding.Read for
\* pixels that a silent server never sends
C11_Witness ==
    /\ cancelled /\ ~connClosed
    /\ rdPc = "enc" /\ rdMsg.rect.enc = 0
    /\ Avail < Needs /\ ~connIn.eof /\ connIn.n = MaxSends


\* the rectangles FramebufferUpdateMessage.Read has decoded, each with the
\* session's dimensions at that moment
DecodedRects ==
    UNION {Range(parsed[i].items) : i \in {j \in 1..Len(parsed) : parsed[j].type = 0}}
    \cup (IF rdPc \in {"rect", "enc"} THEN Range(rdMsg.items) ELSE {})

\* C12: every rectangle accepted with a non-negative encoding type lies
\* inside the framebuffer the session had when the rectangle was parsed:
\* x+width <= fb_width and y+height <= fb_height; so does the rectangle
\* whose bytes the reader is waiting for.
C12_AcceptedRectInBounds ==
    /\ \A r \in DecodedRects :
          r.rect.enc >= 0 =>
             /\ r.rect.x + r.rect.w <= r.fbW
             /\ r.rect.y + r.rect.h <= r.fbH
    /\ (rdPc = "enc" /\ rdMsg.rect.enc >= 0) =>
          /\ rdMsg.rect.x + rdMsg.rect.w <= fbW
          /\ rdMsg.rect.y + rdMsg.rect.h <= fbH

\* a Raw rectangle in the corner of the 4x4 framebuffer was accepted; then
\* a DesktopSize rectangle made the framebuffer 2x2 and a rectangle three
\* wide, in bounds before, was rejected
C12_Witness ==
    /\ Len(parsed) = 1 /\ parsed[1].type = 0
    /\ parsed[1].items = <<[rect |-> [x |-> 3, y |-> 3, w |-> 1, h |-> 1,
                                      enc |-> 0],
                            fbW |-> 4, fbH |-> 4]>>
    /\ fbW = 2 /\ fbH = 2
    /\ rdPc = "exited" /\ readErr = <<"Protocol", "Validation">>


\* the DesktopSize rectangle of the 1024x768 update, on the wire
DesktopSize1024x768 == Rect(0, 0, 1024, 768, -223, <<>>)

\* C13: when the reader takes the single rectangle (0, 0, 1024, 768, -223)
\* of a FramebufferUpdate, the update is parsed, the session's dimensions
\* become 1024x768 and no byte beyond the 12 of the rectangle's header is
\* consumed, whatever the dimensions were before.
C13_DesktopSize ==
    [][(/\ rdPc = "rect" /\ rdMsg.n = 1
        /\ Ready(12) /\ Take(12) = DesktopSize1024x768
        /\ rdPc' # "rect")
       => /\ fbW' = 1024 /\ fbH' = 768
          /\ connIn'.pos = connIn.pos + 12
          /\ parsed' = Append(parsed, parsed'[Len(parsed')])
          /\ parsed'[Len(parsed')].end - parsed'[Len(parsed')].start = 16
          /\ rdPc' \in {"top", "send"}]_vars

\* the update was parsed when the framebuffer was 4x4, and again when it
\* was 1024x768
C13_Witness ==
    /\ Len(parsed) = 2
    /\ \A i \in 1..2 :
          /\ parsed[i].type = 0 /\ Len(parsed[i].items) = 1
          /\ parsed[i].items[1].rect =
                [x |-> 0, y |-> 0, w |-> 1024, h |-> 768, enc |-> -223]
    /\ parsed[1].items[1].fbW = 4 /\ parsed[2].items[1].fbW = 1024
    /\ fbW = 1024 /\ fbH = 768
    /\ connIn.pos = 32


\* the rectangle header the reader is about to take
NextRect ==
    LET b == Take(12)
    IN [x |-> BeU16(SubSeq(b, 1, 2)), y |-> BeU16(SubSeq(b, 3, 4)),
        w |-> BeU16(SubSeq(b, 5, 6)), h |-> BeU16(SubSeq(b, 7, 8)),
        enc |-> BeI32(SubSeq(b, 9, 12))]

\* the reader takes a rectangle header in this step
TakesRect == rdPc = "rect" /\ Ready(12) /\ connIn'.pos = connIn.pos + 12

WithEntries(map, msg) ==
    [i \in 0..(ColorMapSize - 1) |->
        IF msg.first <= i /\ i < msg.first + msg.n
        THEN msg.items[i - msg.first + 1] ELSE map[i]]

\* the zero map with the first k parsed messages applied, each as a whole
RECURSIVE AppliedWhole(_)
AppliedWhole(k) ==
    IF k = 0 THEN ZeroColorMap
    ELSE IF parsed[k].type = 1 THEN WithEntries(AppliedWhole(k - 1), parsed[k])
    ELSE AppliedWhole(k - 1)

\* C15: the colour map is at every moment the result of whole
\* SetColorMapEntries messages: those that were parsed, each with all its
\* entries [first, first+n) replaced and no other changed; a message that
\* is still being read, or that failed to parse, has changed nothing.
C15_AtomicColorMap == ColorMap = AppliedWhole(Len(parsed))

\* the stream ended after the first of the two colours of a message for
\* entries 1 and 2: the message failed, and entry 1 holds its colour
C15_Witness ==
    /\ connIn.sent = SubSeq(SetColorMapEntries(1, <<Red, Green>>), 1, 12)
    /\ connIn.eof
    /\ rdPc = "exited" /\ readErr = <<"Network">> /\ parsed = <<>>
    /\ ColorMap[1] = Red /\ ColorMap[2] = Color(0, 0, 0)


\* the reader takes the head of a ServerCutText in this step, the seven
\* bytes after the type byte being there
TakesCutTextHead ==
    /\ rdPc = "head" /\ rdMsg.type = 3
    /\ Ready(7) /\ connIn'.pos # connIn.pos

\* C16: after the type byte of a ServerCutText the reader skips three
\* bytes, takes the next four as the length, fails with Protocol when it
\* is above 10 MiB, and otherwise (for a length of 1 or more) reads that
\* many bytes as the text, so that the message ends 8 + length bytes after
\* its type byte and the next byte is read as a type byte.
C16_CutTextFraming ==
    [][/\ TakesCutTextHead =>
            LET length == BeU32(SubSeq(Take(7), 4, 7))
            IN /\ connIn'.pos = connIn.pos + 7
               /\ length > MaxServerClipboardLength =>
                     rdPc' = "exited" /\ GetErrorCode(readErr') = "Protocol"
               /\ (length >= 1 /\ length <= MaxServerClipboardLength) =>
                     rdPc' = "text" /\ rdMsg'.n = length
       /\ (rdPc = "text" /\ connIn'.pos # connIn.pos /\ rdPc' # "exited") =>
            /\ connIn'.pos = rdMsg.start + 8 + rdMsg.n
            /\ parsed'[Len(parsed')].end = rdMsg.start + 8 + rdMsg.n]_vars

\* the server wrote a ServerCutText with the text "d" and a Bell; the
\* reader took six bytes and failed
C16_Witness ==
    /\ connIn.sent = ServerCutText(<<100>>) \o Bell
    /\ connIn.pos = 6
    /\ rdPc = "exited" /\ exitCause = "decodeError"
    /\ readErr = <<"Protocol", "Validation">> /\ parsed = <<>>



(***************************************************************************)
(* SpecPf: writePixelFormat and readPixelFormat on their own, for formats  *)
(* valid and not.                                                          *)
(***************************************************************************)
\* the session the functions are applied in: established, nothing else
\* in progress
FxBaseAs(width, height) ==
    /\ EstablishedAs(width, height)
    /\ rdPc = "top" /\ rdMsg = NoMsg /\ nextId = 0 /\ parsed = <<>>
    /\ sink = "nil" /\ chanQ = <<>> /\ chClosed = FALSE /\ delivered = <<>>
    /\ exitCause = "none" /\ cancelMark = -1 /\ exitMark = -1
    /\ NegIdle /\ WrIdle /\ connIn = NoInput /\ readErr = NoErr

FxBase == FxBaseAs(4, 4)

FxRest == <<hsVars, sessVars, connVars, neg, inVars, rdVars, wrVars>>

\* the formats handed to writePixelFormat
PfFormats ==
    {PF(bpp, depth, be, tc, rmax, gmax, 31, rshift, 8, 0) :
        bpp \in {8, 16, 32}, depth \in {8, 24}, be \in BOOLEAN, tc \in BOOLEAN,
        rmax \in {0, 255, 65535}, gmax \in {0, 63}, rshift \in {0, 16}}

\* readPixelFormat on the 16 bytes it reads, into *result: the flags are
\* set when their byte is non-zero and never cleared, the max and shift
\* fields are read only when the true-colour byte is non-zero
readPixelFormatRaw(rawPixelFormat, result) ==
    LET tc == rawPixelFormat[4] # 0
        u16(i) == BeU16(SubSeq(rawPixelFormat, i, i + 1))
    IN [BPP        |-> rawPixelFormat[1],
        Depth      |-> rawPixelFormat[2],
        BigEndian  |-> (rawPixelFormat[3] # 0) \/ result.BigEndian,
        TrueColor  |-> tc \/ result.TrueColor,
        RedMax     |-> IF tc THEN u16(5) ELSE result.RedMax,
        GreenMax   |-> IF tc THEN u16(7) ELSE result.GreenMax,
        BlueMax    |-> IF tc THEN u16(9) ELSE result.BlueMax,
        RedShift   |-> IF tc THEN rawPixelFormat[11] ELSE result.RedShift,
        GreenShift |-> IF tc THEN rawPixelFormat[12] ELSE result.GreenShift,
        BlueShift  |-> IF tc THEN rawPixelFormat[13] ELSE result.BlueShift]

PfInit ==
    /\ FxBase /\ ColorMap = ZeroColorMap
    /\ \E format \in PfFormats :
          fx = [op |-> "chosen", format |-> format, raw |-> <<>>, result |-> ZeroPF]

\* writePixelFormat(format)
PfWrite ==
    /\ fx.op = "chosen"
    /\ fx' = [fx EXCEPT !.op = "written", !.raw = writePixelFormat(fx.format)]
    /\ UNCHANGED FxRest

\* readPixelFormat(r, &pixelFormat) on those bytes, pixelFormat the zero
\* value (1270-1271); io.ReadFull takes 16 bytes
PfRead ==
    /\ fx.op = "written"
    /\ Len(fx.raw) >= 16
    /\ fx' = [fx EXCEPT !.op = "read",
                        !.result = readPixelFormatRaw(SubSeq(fx.raw, 1, 16), ZeroPF)]
    /\ UNCHANGED FxRest

\* the next format
PfAgain ==
    /\ fx.op = "read"
    /\ \E format \in PfFormats :
          fx' = [op |-> "chosen", format |-> format, raw |-> <<>>, result |-> ZeroPF]
    /\ UNCHANGED FxRest

PfNext == PfWrite \/ PfRead \/ PfAgain

SpecPf == PfInit /\ [][PfNext]_vars

\* C21 as stated: for every format, true colour or colour mapped, the
\* encoded form is 16 bytes and decoding it gives the format back.
C21_RoundTrip ==
    fx.op = "read" => Len(fx.raw) = 16 /\ fx.result = fx.format

\* C21, amended: the encoded form is 16 bytes, the last three zero; decoding
\* it gives the format with the max and shift fields zero when it is not
\* true colour, which is the format itself when it is true colour or has
\* those fields zero.
C21_RoundTripTrueColor ==
    /\ fx.op \in {"written", "read"} =>
          /\ Len(fx.raw) = 16
          /\ SubSeq(fx.raw, 14, 16) = <<0, 0, 0>>
    /\ fx.op = "read" =>
          /\ fx.result = readPixelFormat(fx.format)
          /\ fx.format.TrueColor => fx.result = fx.format
          /\ fx.result.BPP = fx.format.BPP /\ fx.result.Depth = fx.format.Depth
          /\ fx.result.BigEndian = fx.format.BigEndian
          /\ fx.result.TrueColor = fx.format.TrueColor

\* a colour-mapped format with maxima and a shift went out with those bytes
\* zero and came back without them
C21_Witness ==
    /\ fx.op = "read"
    /\ fx.format = PF(8, 8, FALSE, FALSE, 255, 63, 31, 16, 8, 0)
    /\ fx.raw = <<8, 8, 0, 0, 0, 0, 0, 0, 0, 0, 0, 0, 0, 0, 0, 0>>
    /\ fx.result = PF(8, 8, FALSE, FALSE, 0, 0, 0, 0, 0, 0)



(***************************************************************************)
(* SpecPx: the pixel reader on its own: bytesToPixel and pixelToColor for  *)
(* every format that ValidatePixelFormat accepts.  A uint32 is kept as its *)
(* two 16-bit halves.                                                      *)
(***************************************************************************)
Pixel32(hi, lo) == [hi |-> hi, lo |-> lo]

RECURSIVE Pow2(_)
Pow2(n) == IF n = 0 THEN 1 ELSE 2 * Pow2(n - 1)

\* a & b on 16 bits
RECURSIVE And16(_, _)
And16(a, b) ==
    IF a = 0 \/ b = 0 THEN 0
    ELSE (a % 2) * (b % 2) + 2 * And16(a \div 2, b \div 2)

\* uint16((rawPixel >> shift) & uint32(max)): a shift of 32 or more
\* leaves zero
ShiftMask(rawPixel, shift, max) ==
    LET low == IF shift >= 32 THEN 0
               ELSE IF shift >= 16 THEN rawPixel.hi \div Pow2(shift - 16)
               ELSE ((rawPixel.hi % Pow2(shift)) * Pow2(16 - shift)
                     + rawPixel.lo \div Pow2(shift)) % 65536
    IN And16(low, max)

\* PixelReader.bytesToPixel with the byte order NewPixelReader chose
bytesToPixel(pf, pixelBytes) ==
    CASE pf.BPP = 8 -> Pixel32(0, pixelBytes[1])
      [] pf.BPP = 16 ->
            IF pf.BigEndian THEN Pixel32(0, pixelBytes[1] * 256 + pixelBytes[2])
            ELSE Pixel32(0, pixelBytes[2] * 256 + pixelBytes[1])
      [] pf.BPP = 32 ->
            IF pf.BigEndian
            THEN Pixel32(pixelBytes[1] * 256 + pixelBytes[2],
                         pixelBytes[3] * 256 + pixelBytes[4])
            ELSE Pixel32(pixelBytes[4] * 256 + pixelBytes[3],
                         pixelBytes[2] * 256 + pixelBytes[1])
      [] OTHER -> Pixel32(0, 0)

\* the index pr.colorMap[rawPixel] is within the array
IndexInRange(rawPixel) == rawPixel.hi = 0 /\ rawPixel.lo < ColorMapSize

\* PixelReader.pixelToColor where it returns
pixelToColor(pf, colorMap, rawPixel) ==
    IF pf.TrueColor
    THEN Color(ShiftMask(rawPixel, pf.RedShift, pf.RedMax),
               ShiftMask(rawPixel, pf.GreenShift, pf.GreenMax),
               ShiftMask(rawPixel, pf.BlueShift, pf.BlueMax))
    ELSE colorMap[rawPixel.lo]

\* the formats of a session: those ValidatePixelFormat accepts among these
PxCandidates ==
    {PF(bpp, depth, be, tc, m[1], m[2], m[3], m[4], m[5], m[6]) :
        bpp \in {8, 16, 32}, depth \in {8, 16, 24}, be \in BOOLEAN,
        tc \in BOOLEAN,
        m \in {<<255, 255, 255, 16, 8, 0>>, <<31, 63, 31, 11, 5, 0>>,
               <<7, 7, 3, 5, 2, 0>>, <<255, 0, 255, 16, 8, 0>>}}
PxFormats == {pf \in PxCandidates : ValidatePixelFormat(pf)}

\* the bytes of a pixel on the wire
PxByte == {0, 1, 255}
PxBytes(pf) == [1..(pf.BPP \div 8) -> PxByte]

PxInit ==
    /\ FxBase
    /\ ColorMap = [i \in 0..(ColorMapSize - 1) |-> Color(i * 257, i * 257, i * 257)]
    /\ \E pf \in PxFormats : \E pixelBytes \in PxBytes(pf) :
          fx = [op |-> "chosen", format |-> pf, bytes |-> pixelBytes,
                raw |-> Pixel32(0, 0), color |-> Color(0, 0, 0)]

\* rawPixel := pr.bytesToPixel(pixelBytes)
PxBytesToPixel ==
    /\ fx.op = "chosen"
    /\ fx' = [fx EXCEPT !.op = "pixel", !.raw = bytesToPixel(fx.format, fx.bytes)]
    /\ UNCHANGED FxRest

\* pr.pixelToColor(rawPixel) returns a colour
PxPixelToColor ==
    /\ fx.op = "pixel"
    /\ fx.format.TrueColor \/ IndexInRange(fx.raw)
    /\ fx' = [fx EXCEPT !.op = "color",
                        !.color = pixelToColor(fx.format, ColorMap, fx.raw)]
    /\ UNCHANGED FxRest

\* pr.colorMap[rawPixel] with the index beyond the array: the Go runtime
\* panics
PxPanic ==
    /\ fx.op = "pixel"
    /\ ~fx.format.TrueColor /\ ~IndexInRange(fx.raw)
    /\ fx' = [fx EXCEPT !.op = "panic"]
    /\ UNCHANGED FxRest

PxNext == PxBytesToPixel \/ PxPixelToColor \/ PxPanic

SpecPx == PxInit /\ [][PxNext]_vars

\* C22: for a colour-mapped format that passed validation and any pixel
\* bytes, the raw pixel is an index from 0 to 255 and the lookup in the
\* colour map stays inside its 256 entries.
C22_IndexInMap ==
    (fx.op \in {"pixel", "color", "panic"} /\ ~fx.format.TrueColor) =>
        IndexInRange(fx.raw) /\ fx.op # "panic"

\* the lookup is inside the map for the formats of 8 bits per pixel
IndexInMap8 ==
    (fx.op \in {"pixel", "color", "panic"} /\ ~fx.format.TrueColor
        /\ fx.format.BPP = 8) =>
        IndexInRange(fx.raw) /\ fx.op # "panic"

\* a colour-mapped format of 16 bits per pixel passed validation; the pixel
\* bytes 01 00 make the index 256 and the lookup panics
C22_Witness ==
    /\ fx.op = "panic"
    /\ fx.format = PF(16, 8, TRUE, FALSE, 255, 255, 255, 16, 8, 0)
    /\ ValidatePixelFormat(fx.format)
    /\ fx.bytes = <<1, 0>> /\ fx.raw = Pixel32(0, 256)



(***************************************************************************)
(* The pixel format of a session (SpecHs).                                 *)
(***************************************************************************)
\* the number of one bits of a 16-bit value
PopCount(v) == Cardinality({i \in 0..15 : (v \div Pow2(i)) % 2 = 1})

\* the invariants of a true-colour format
TrueColorInvariants(pf) ==
    /\ pf.RedMax # 0 /\ pf.GreenMax # 0 /\ pf.BlueMax # 0
    /\ pf.RedShift < pf.BPP /\ pf.GreenShift < pf.BPP /\ pf.BlueShift < pf.BPP
    /\ PopCount(pf.RedMax) + PopCount(pf.GreenMax) + PopCount(pf.BlueMax)
          <= pf.Depth

\* C23: the pixel format of a connection that ClientWithContext returned,
\* when true colour, has each maximum non-zero, each shift below the bits
\* per pixel and no more one bits in its maxima than its depth; so has
\* every true-colour format SetPixelFormat does not reject.
C23_TrueColorInvariants ==
    returned = "conn" =>
        /\ pixelFormat.TrueColor => TrueColorInvariants(pixelFormat)
        /\ \A pf \in PxCandidates :
              (pf.TrueColor
                  /\ Validate(Call("SetPixelFormat", <<>>, pf, <<>>)) = NoErr) =>
                  TrueColorInvariants(pf)

\* a session holds the true-colour format of 32 bits the server sent, after
\* the handshake went through
C23_Witness ==
    /\ returned = "conn" /\ pc = "running"
    /\ pixelFormat = PF(32, 24, FALSE, TRUE, 255, 255, 255, 16, 8, 0)
    /\ TrueColorInvariants(pixelFormat)
    /\ \E pf \in PxCandidates :
          pf.TrueColor /\ pf.BPP = 16
          /\ Validate(Call("SetPixelFormat", <<>>, pf, <<>>)) = NoErr



(***************************************************************************)
(* SpecHx: HextileEncoding.Read on its own, tile by tile.  The server's    *)
(* bytes are the subencoding byte of each tile and the pixels and          *)
(* subrectangle bytes that follow it; a pixel is given as the colour       *)
(* readPixelColor makes of it.                                             *)
(***************************************************************************)
HextileRaw                 == 1
HextileBackgroundSpecified == 2
HextileForegroundSpecified == 4
HextileAnySubrects         == 8
HextileSubrectsColoured    == 16
HextileTileSize            == 16
maxTiles                   == 100000

\* subencoding & flag != 0
HasFlag(subencoding, flag) == (subencoding \div flag) % 2 = 1

\* the rectangles a server sends with this encoding, in a framebuffer of
\* HxFbWidth x HxFbHeight
HxFbWidth  == 8192
HxFbHeight == 4096
HxRects == {<<18, 2>>, <<34, 2>>, <<18, 18>>, <<8192, 4096>>, <<8200, 2>>}

\* what follows the subencoding byte on the wire
HxSubencodings == {0, 1, 2, 3, 4, 6, 8, 24}
HxPixels == {Red, Green}
\* xy and wh of a subrectangle: 1x1 at (0,0), 1x1 at (15,0), 16x1 at (0,0)
HxSubrectBytes == {<<0, 0>>, <<240, 0>>, <<0, 240>>}

\* a tile that takes Color{} when it names no colour of its own
RunningReset(subencoding, flag, running, pixel) ==
    IF HasFlag(subencoding, flag) THEN pixel ELSE Color(0, 0, 0)

\* the running background or foreground after the flag was looked at
\* (151-157, 160-166): the pixel read when the flag is set, else the value
\* as the last tile left it
Running(subencoding, flag, running, pixel) ==
    IF HasFlag(subencoding, flag) THEN pixel ELSE running

\* tilesX, tilesY (104-105) and totalTiles (106), in uint16
TilesAcross(extent) == ((extent + HextileTileSize - 1) % 65536) \div HextileTileSize
TotalTiles(width, height) == (TilesAcross(width) * TilesAcross(height)) % 65536

\* tileWidth, tileHeight (120-128), in uint16
TileExtent(tile, extent) ==
    IF (tile * HextileTileSize + HextileTileSize) % 65536 > extent
    THEN (extent + 65536 - ((tile * HextileTileSize) % 65536)) % 65536
    ELSE HextileTileSize

\* the error of a subrectangle that does not lie in its tile (201-214)
SubrectOutside(xyData, whData, tileWidth, tileHeight) ==
    LET x == (xyData \div 16) % 16
        y == xyData % 16
        w == ((whData \div 16) % 16) + 1
        h == (whData % 16) + 1
    IN \/ x >= tileWidth \/ y >= tileHeight
       \/ x + w > tileWidth \/ y + h > tileHeight

NoTile == [Width |-> 0, Height |-> 0, Background |-> Color(0, 0, 0),
           Foreground |-> Color(0, 0, 0), Colors |-> <<>>,
           Subrectangles |-> <<>>]

HxInit ==
    /\ FxBaseAs(HxFbWidth, HxFbHeight)
    /\ ColorMap = ZeroColorMap
    /\ \E rect \in HxRects :
          fx = [op |-> "start", w |-> rect[1], h |-> rect[2],
                totalTiles |-> 0, tileIndex |-> 0, tileX |-> 0, tileY |-> 0,
                background |-> Color(0, 0, 0), foreground |-> Color(0, 0, 0),
                tiles |-> <<>>, ins |-> <<>>, err |-> NoErr]

\* the head of Read: the rectangle against the framebuffer, the count of
\* tiles and its cap (95-116)
HxBegin ==
    /\ fx.op = "start"
    /\ fx' = IF fbW > 0 /\ fbH > 0
                /\ ~ValidateRectangle(0, 0, fx.w, fx.h, fbW, fbH)
             THEN [fx EXCEPT !.op = "error", !.err = <<"Encoding", "Validation">>]
             ELSE IF TotalTiles(fx.w, fx.h) > maxTiles
             THEN [fx EXCEPT !.op = "error", !.err = <<"Encoding">>]
             ELSE [fx EXCEPT !.op = "tiles",
                             !.totalTiles = TotalTiles(fx.w, fx.h)]
    /\ UNCHANGED FxRest

\* the loops are at a tile
HxAtTile ==
    /\ fx.op = "tiles"
    /\ fx.tileY < TilesAcross(fx.h) /\ fx.tileX < TilesAcross(fx.w)

\* one pass of the inner loop (120-219): the tile's size, its subencoding,
\* then the raw pixels, or the background, the foreground and the
\* subrectangles
HxTile ==
    /\ HxAtTile
    /\ fx.tileIndex < fx.totalTiles
    /\ LET tileWidth == TileExtent(fx.tileX, fx.w)
           tileHeight == TileExtent(fx.tileY, fx.h)
           last == fx.tileX + 1 = TilesAcross(fx.w)
           Decoded(in, tile, background, foreground) ==
               [fx EXCEPT !.tiles = Append(@, tile), !.ins = Append(@, in),
                          !.background = background, !.foreground = foreground,
                          !.tileIndex = @ + 1,
                          !.tileX = IF last THEN 0 ELSE @ + 1,
                          !.tileY = IF last THEN @ + 1 ELSE @]
       IN \/ \E subencoding \in HxSubencodings, px \in HxPixels, px2 \in HxPixels,
                sr \in HxSubrectBytes :
               LET in == [sub |-> subencoding, px |-> px, px2 |-> px2, sr |-> sr]
                   sized == [NoTile EXCEPT !.Width = tileWidth, !.Height = tileHeight]
               IN IF HasFlag(subencoding, HextileRaw)
                  THEN /\ px2 = px /\ sr = <<0, 0>>
                       /\ fx' = Decoded(in,
                                   [sized EXCEPT !.Colors =
                                       [i \in 1..((tileWidth * tileHeight) % 65536)
                                           |-> px]],
                                   fx.background, fx.foreground)
                  ELSE LET background == Running(subencoding, HextileBackgroundSpecified,
                                                 fx.background, px)
                           foreground == Running(subencoding, HextileForegroundSpecified,
                                                 fx.foreground, px2)
                           any == HasFlag(subencoding, HextileAnySubrects)
                           subrect == [Color |-> IF HasFlag(subencoding,
                                                           HextileSubrectsColoured)
                                                 THEN px ELSE foreground,
                                       xy |-> sr[1], wh |-> sr[2]]
                       IN /\ ~HasFlag(subencoding, HextileBackgroundSpecified)
                               /\ ~(any /\ HasFlag(subencoding, HextileSubrectsColoured))
                               => px = Red
                          /\ ~HasFlag(subencoding, HextileForegroundSpecified) => px2 = Red
                          /\ ~any => sr = <<0, 0>>
                          /\ fx' = IF any /\ SubrectOutside(sr[1], sr[2],
                                                            tileWidth, tileHeight)
                                   THEN [fx EXCEPT !.op = "error", !.err = <<"Encoding">>,
                                                   !.ins = Append(@, in)]
                                   ELSE Decoded(in,
                                           [sized EXCEPT
                                               !.Background = background,
                                               !.Foreground = foreground,
                                               !.Subrectangles =
                                                   IF any THEN <<subrect>> ELSE <<>>],
                                           background, foreground)
          \/ fx' = [fx EXCEPT !.op = "error", !.err = <<"Encoding", "Network">>]
    /\ UNCHANGED FxRest

\* tile := &tiles[tileIndex] with the index beyond the slice (130): the Go
\* runtime panics
HxPanic ==
    /\ HxAtTile
    /\ ~(fx.tileIndex < fx.totalTiles)
    /\ fx' = [fx EXCEPT !.op = "panic"]
    /\ UNCHANGED FxRest

\* the loops are over: return &HextileEncoding{Tiles: tiles}, nil (223)
HxReturn ==
    /\ fx.op = "tiles"
    /\ ~HxAtTile
    /\ fx' = [fx EXCEPT !.op = "done"]
    /\ UNCHANGED FxRest

HxNext == HxBegin \/ HxTile \/ HxPanic \/ HxReturn

SpecHx == HxInit /\ [][HxNext]_vars



(***************************************************************************)
(* Properties of the Hextile decoder (SpecHx).                             *)
(***************************************************************************)
\* the pixel the latest tile up to the i-th gave for the flag, raw tiles
\* passed over, or Color{} when none did
RECURSIVE LastSpecified(_, _, _)
LastSpecified(ins, i, flag) ==
    IF i = 0 THEN Color(0, 0, 0)
    ELSE IF ~HasFlag(ins[i].sub, HextileRaw) /\ HasFlag(ins[i].sub, flag)
         THEN IF flag = HextileBackgroundSpecified THEN ins[i].px ELSE ins[i].px2
    ELSE LastSpecified(ins, i - 1, flag)

\* C24: each decoded tile that is not raw has as its background the pixel
\* of the latest tile of the rectangle, itself included, that specified
\* one, and likewise its foreground; a tile that specifies none after a
\* tile that is not raw has that tile's value; raw tiles in between change
\* nothing, and the running values are those of the latest specification.
C24_HextileInheritance ==
    fx.op \in {"tiles", "done"} =>
        /\ \A i \in 1..Len(fx.tiles) :
              ~HasFlag(fx.ins[i].sub, HextileRaw) =>
                  /\ fx.tiles[i].Background =
                        LastSpecified(fx.ins, i, HextileBackgroundSpecified)
                  /\ fx.tiles[i].Foreground =
                        LastSpecified(fx.ins, i, HextileForegroundSpecified)
                  /\ (i > 1 /\ ~HasFlag(fx.ins[i - 1].sub, HextileRaw)) =>
                        /\ ~HasFlag(fx.ins[i].sub, HextileBackgroundSpecified) =>
                              fx.tiles[i].Background = fx.tiles[i - 1].Background
                        /\ ~HasFlag(fx.ins[i].sub, HextileForegroundSpecified) =>
                              fx.tiles[i].Foreground = fx.tiles[i - 1].Foreground
        /\ fx.background =
              LastSpecified(fx.ins, Len(fx.tiles), HextileBackgroundSpecified)
        /\ fx.foreground =
              LastSpecified(fx.ins, Len(fx.tiles), HextileForegroundSpecified)

\* three tiles: the first gives a green background and foreground, the
\* second is raw, the third gives nothing and has the green of the first
C24_Witness ==
    /\ fx.op = "done" /\ fx.w = 34 /\ Len(fx.tiles) = 3
    /\ fx.ins[1].sub = 6 /\ fx.ins[1].px = Green /\ fx.ins[1].px2 = Green
    /\ fx.ins[2].sub = 1 /\ fx.ins[2].px = Red
    /\ fx.ins[3].sub = 0
    /\ fx.tiles[3].Background = Green /\ fx.tiles[3].Foreground = Green
    /\ fx.tiles[3].Width = 2

\* the tiles a rectangle takes, in unbounded arithmetic
TilesNeeded(width, height) ==
    ((width + 15) \div 16) * ((height + 15) \div 16)

\* C25: a rectangle that takes more than 100,000 tiles is rejected with an
\* error at the head of Read: it is not decoded.
C25_TileCap ==
    (fx.op # "start" /\ TilesNeeded(fx.w, fx.h) > maxTiles) =>
        fx.op = "error"

\* a rectangle of 8192 x 4096, 131072 tiles, inside the framebuffer: the
\* count wraps to 0, the cap lets it pass and the first tile is beyond the
\* slice
C25_Witness ==
    /\ fx.op = "panic"
    /\ fx.w = 8192 /\ fx.h = 4096
    /\ TilesNeeded(fx.w, fx.h) = 131072
    /\ fx.totalTiles = 0 /\ fx.tileIndex = 0 /\ fx.tiles = <<>>



(***************************************************************************)
(* SpecLock: the accesses to the fields of ClientConn after the handshake, *)
(* by the reader task and by a caller's goroutine, with c.mu.  An access   *)
(* lasts from its begin to its end; a guarded one lies between the         *)
(* acquisition and the release of the lock.                                *)
(***************************************************************************)
Acc(field, kind, guard) == [field |-> field, kind |-> kind, guard |-> guard]
NoAcc == Acc("none", "none", "none")

\* mainLoop and what it calls: FramebufferUpdateMessage.Read ranges over
\* c.Encs (server_messages.go 164) and passes the dimensions to
\* ValidateRectangle (204); the encodings read c.PixelFormat and c.ColorMap
\* (encoding_raw.go 86); SetColorMapEntriesMessage.Read stores into
\* c.ColorMap (396); DesktopSizePseudoEncoding.Handle reads the dimensions
\* through GetFrameBufferSize and stores them under c.mu.Lock (color.go
\* 442-447)
ReaderAccesses ==
    {Acc("Encs", "read", "none"), Acc("Dimensions", "read", "none"),
     Acc("PixelFormat", "read", "none"), Acc("ColorMap", "read", "none"),
     Acc("ColorMap", "write", "none"),
     Acc("Dimensions", "read", "shared"), Acc("Dimensions", "write", "exclusive")}

\* the client-message methods and the getters: SetEncodings stores c.Encs
\* (client.go 908), SetPixelFormat stores c.ColorMap (1020), PointerEvent
\* reads the dimensions through GetFrameBufferSize (742) and, for its log,
\* directly (747-748); GetFrameBufferSize, GetDesktopName and
\* GetPixelFormat take c.mu.RLock (1542-1560)
CallerAccesses ==
    {Acc("Encs", "write", "none"), Acc("ColorMap", "write", "none"),
     Acc("Dimensions", "read", "shared"), Acc("Dimensions", "read", "none"),
     Acc("DesktopName", "read", "shared"), Acc("PixelFormat", "read", "shared")}

Threads == {"reader", "caller"}
AccessesOf(t) == IF t = "reader" THEN ReaderAccesses ELSE CallerAccesses

LkInit ==
    /\ FxBase /\ ColorMap = ZeroColorMap
    /\ fx = [op |-> "lock",
             mu |-> [writer |-> "none", readers |-> {}],
             th |-> [t \in Threads |-> [acc |-> NoAcc, phase |-> "idle"]]]

\* a thread comes to a statement that accesses a field
LkReach(t) ==
    /\ fx.th[t].phase = "idle"
    /\ \E a \in AccessesOf(t) :
          fx' = [fx EXCEPT !.th[t] = [acc |-> a, phase |-> "reached"]]
    /\ UNCHANGED FxRest

\* c.mu.Lock() or c.mu.RLock() returns
LkAcquire(t) ==
    /\ fx.th[t].phase = "reached"
    /\ fx.th[t].acc.guard # "none"
    /\ fx.mu.writer = "none"
    /\ fx.th[t].acc.guard = "exclusive" => fx.mu.readers = {}
    /\ fx' = [fx EXCEPT
                !.th[t].phase = "held",
                !.mu = IF fx.th[t].acc.guard = "exclusive"
                       THEN [@ EXCEPT !.writer = t]
                       ELSE [@ EXCEPT !.readers = @ \cup {t}]]
    /\ UNCHANGED FxRest

\* the load or the store begins
LkBegin(t) ==
    /\ \/ fx.th[t].phase = "held"
       \/ fx.th[t].phase = "reached" /\ fx.th[t].acc.guard = "none"
    /\ fx' = [fx EXCEPT !.th[t].phase = "in"]
    /\ UNCHANGED FxRest

\* the load or the store is complete
LkEnd(t) ==
    /\ fx.th[t].phase = "in"
    /\ fx' = [fx EXCEPT !.th[t] = IF fx.th[t].acc.guard = "none"
                                  THEN [acc |-> NoAcc, phase |-> "idle"]
                                  ELSE [@ EXCEPT !.phase = "out"]]
    /\ UNCHANGED FxRest

\* c.mu.Unlock() or c.mu.RUnlock()
LkRelease(t) ==
    /\ fx.th[t].phase = "out"
    /\ fx' = [fx EXCEPT
                !.th[t] = [acc |-> NoAcc, phase |-> "idle"],
                !.mu = [writer |-> IF @.writer = t THEN "none" ELSE @.writer,
                        readers |-> @.readers \ {t}]]
    /\ UNCHANGED FxRest

LkNext ==
    \/ \E t \in Threads : LkReach(t)
    \/ \E t \in Threads : LkAcquire(t)
    \/ \E t \in Threads : LkBegin(t)
    \/ \E t \in Threads : LkEnd(t)
    \/ \E t \in Threads : LkRelease(t)

SpecLock == LkInit /\ [][LkNext]_vars

\* the guard thread t holds
Holds(t) ==
    IF fx.mu.writer = t THEN "exclusive"
    ELSE IF t \in fx.mu.readers THEN "shared" ELSE "none"

\* thread t is inside an access to the field
Inside(t, field) == fx.th[t].phase = "in" /\ fx.th[t].acc.field = field

\* C26: a store to a field of the session state is made with the exclusive
\* guard held and a load with the read guard or the exclusive one, so that
\* no access to a field by one thread overlaps a store to it by the other.
C26_StateUnderLock ==
    /\ \A t \in Threads :
          fx.th[t].phase = "in" =>
              IF fx.th[t].acc.kind = "write" THEN Holds(t) = "exclusive"
              ELSE Holds(t) \in {"shared", "exclusive"}
    /\ \A t \in Threads : \A u \in Threads \ {t} :
          ~(Inside(t, fx.th[t].acc.field) /\ Inside(u, fx.th[t].acc.field)
            /\ fx.th[t].acc.kind = "write")

\* the accesses that take the lock never overlap a store that takes it
GuardedAccessesExclude ==
    \A t \in Threads : \A u \in Threads \ {t} :
        ~(Inside(t, fx.th[t].acc.field) /\ Inside(u, fx.th[t].acc.field)
          /\ fx.th[t].acc.kind = "write"
          /\ fx.th[t].acc.guard # "none" /\ fx.th[u].acc.guard # "none")

\* the reader stores an entry of the colour map while the caller's
\* SetPixelFormat stores the whole map, neither with the lock
C26_Witness ==
    /\ fx.th["reader"] = [acc |-> Acc("ColorMap", "write", "none"), phase |-> "in"]
    /\ fx.th["caller"] = [acc |-> Acc("ColorMap", "write", "none"), phase |-> "in"]
    /\ fx.mu = [writer |-> "none", readers |-> {}]



(***************************************************************************)
(* SpecClose: ClientConn.Close called by two goroutines of the application *)
(* and by mainLoop's defer, each call in its two steps: c.cancel() and     *)
(* c.c.Close().                                                            *)
(***************************************************************************)
MaxCloses == 2
Closers == {"caller1", "caller2", "reader"}

\* c.cancel is never nil: ClientWithContext sets it (client.go 236-243)
CancelIsNil == FALSE
HasCancel == TRUE

\* what c.c.Close() returns: nil the first time; afterwards what the
\* net.Conn implementation gives, nil or its already-closed error
ConnCloseReturns == IF connClosed THEN {"nil", "closed"} ELSE {"nil"}

ClInit ==
    /\ FxBase /\ ColorMap = ZeroColorMap
    /\ fx = [op |-> "close",
             at |-> [t \in Closers |-> "idle"],
             calls |-> [t \in Closers |-> 0],
             ret |-> [t \in Closers |-> "none"],
             first |-> "none"]

\* an application goroutine calls Close
ClCall(t) ==
    /\ t # "reader"
    /\ fx.at[t] = "idle"
    /\ fx.calls[t] < MaxCloses
    /\ fx' = [fx EXCEPT !.at[t] = "cancel", !.calls[t] = @ + 1]
    /\ UNCHANGED FxRest

\* mainLoop leaves its loop, on the done context or on a failed read, and
\* its deferred c.Close() starts (1340)
ClReaderExit ==
    /\ rdPc # "exited"
    /\ \E cause \in (IF cancelled THEN {"cancelled"} ELSE {}) \cup {"error"} :
          RdExitNoClose(cause)
    /\ fx' = [fx EXCEPT !.at["reader"] = "cancel", !.calls["reader"] = @ + 1]
    /\ UNCHANGED <<hsVars, sessVars, neg, inVars, nextId, parsed, sink, chanQ,
                   chClosed, delivered, ColorMap, wrVars>>

\* if c.cancel != nil { c.cancel() } (358-360)
ClCancel(t) ==
    /\ fx.at[t] = "cancel"
    /\ IF HasCancel THEN CancelCtx ELSE UNCHANGED <<cancelled, cancelMark>>
    /\ fx' = [fx EXCEPT !.at[t] = "closeConn"]
    /\ UNCHANGED <<hsVars, sessVars, connClosed, neg, inVars, rdPc, rdMsg, nextId,
                   parsed, sink, chanQ, chClosed, delivered, exitCause,
                   exitMark, ColorMap, wrVars>>

\* return c.c.Close() (363)
ClCloseConn(t) ==
    /\ fx.at[t] = "closeConn"
    /\ connClosed' = TRUE
    /\ \E r \in ConnCloseReturns :
          fx' = [fx EXCEPT !.at[t] = "idle", !.ret[t] = r,
                           !.first = IF connClosed THEN @ ELSE t]
    /\ UNCHANGED <<hsVars, sessVars, cancelled, neg, inVars, rdVars, wrVars>>

ClNext ==
    \/ \E t \in Closers : ClCall(t)
    \/ ClReaderExit
    \/ \E t \in Closers : ClCancel(t)
    \/ \E t \in Closers : ClCloseConn(t)

SpecClose == ClInit /\ [][ClNext]_vars

\* a call of Close by t returns in this step
CloseReturns(t) == fx.at[t] = "closeConn" /\ fx'.at[t] = "idle"

\* a step of a call of Close
CloseStep == \E t \in Closers : fx.at[t] # "idle" /\ fx'.at[t] # fx.at[t]

\* C27: when a call of Close returns, the context is done and the
\* connection closed, whoever else is closing; the call that closes the
\* connection first returns nil; and a step of Close taken once the context
\* is done and the connection closed changes nothing of the session.
C27_CloseIdempotent ==
    [][ /\ \A t \in Closers :
              CloseReturns(t) =>
                  /\ cancelled' /\ connClosed'
                  /\ ~connClosed => fx'.first = t /\ fx'.ret[t] = "nil"
        /\ cancelled => cancelled' /\ cancelMark' = cancelMark
        /\ connClosed => connClosed'
        /\ CloseStep /\ cancelled /\ connClosed => UNCHANGED FxRest ]_vars

\* the application has closed twice and the reader once, the reader's
\* call having closed the connection while caller1's was in progress
C27_Witness ==
    /\ fx.op = "close"
    /\ fx.first = "reader"
    /\ fx.calls = [t \in Closers |-> IF t = "caller1" THEN 2 ELSE 1]
    /\ \A t \in Closers : fx.at[t] = "idle"
    /\ fx.ret["caller1"] = "closed"
    /\ cancelled /\ connClosed



\* C28: a handshake that fails because its context was cancelled or its
\* deadline passed returns an error of the Timeout category.
C28_CancelIsTimeout ==
    pc = "failed" /\ hsWhy = "ctx" => hsErr # NoErr /\ hsErr[1] = "Timeout"

\* what such a handshake does return: Network from the context-aware reads
\* and writes, Protocol from the read of the pixel format, Authentication
\* with Timeout as its cause from the check in the method's Handshake
CancelCategories ==
    pc = "failed" /\ hsWhy = "ctx" =>
        hsErr \in {<<"Network">>, <<"Protocol">>, <<"Authentication", "Timeout">>}

\* the context was cancelled while the handshake waited for the security
\* result, and the handshake failed with the Network category
C28_Witness ==
    /\ pc = "failed" /\ hsWhy = "ctx" /\ cancelled
    /\ visited[Len(visited)] = "SecurityResult"
    /\ hsErr = <<"Network">>



(***************************************************************************)
(* SpecHsLive: the handshake against a server that may stop sending while  *)
(* the connection stays open.  A read returns bytes only while the server  *)
(* sends; a context-aware read (readWithContext and its kin) can still     *)
(* return ctx.Err(); a read made with binary.Read on the connection itself *)
(* returns only when bytes or a connection error arrive.                   *)
(***************************************************************************)
ServerSilent == fx = [op |-> "silent"]

\* the server sends nothing from now on
SrvSilent ==
    /\ fx = NoFx
    /\ pc \notin {"failed", "panic", "running"}
    /\ fx' = [op |-> "silent"]
    /\ UNCHANGED <<hsVars, sessVars, connVars, neg, inVars, rdVars, wrVars>>

\* a read through a context-aware helper: with a silent server the select
\* can only take its ctx.Done() case (1460-1474)
CtxAwareRead(step) == step /\ (ServerSilent => hsWhy' = "ctx")

\* a read with binary.Read(c.c, ...): readErrorReason (1427, 1441) and the
\* challenge of PasswordAuth.Handshake (color.go 570)
DirectRead(step) == step /\ ~ServerSilent

LvReadVersion    == CtxAwareRead(HsReadVersion)
LvReadTypeCount  == CtxAwareRead(HsReadTypeCount)
LvReadTypes      == CtxAwareRead(HsReadTypes)
LvReadResult     == CtxAwareRead(HsReadResult)
LvReadDims       == CtxAwareRead(HsReadDims)
LvReadPixelFormat == CtxAwareRead(HsReadPixelFormat)
LvReadNameLength == CtxAwareRead(HsReadNameLength)
LvReadName       == CtxAwareRead(HsReadName)
LvReadReason     == DirectRead(HsReadReason)
LvAuthChallenge  == DirectRead(HsAuthChallenge)

\* the steps of the goroutine that runs ClientWithContext
HsLiveStep ==
    \/ LvReadVersion
    \/ HsReplyVersion
    \/ LvReadTypeCount
    \/ LvReadReason
    \/ LvReadTypes
    \/ HsSendType
    \/ HsAuthStart
    \/ LvAuthChallenge
    \/ LvReadResult
    \/ HsClientInit
    \/ LvReadDims
    \/ LvReadPixelFormat
    \/ LvReadNameLength
    \/ LvReadName
    \/ HsSpawnReader

HsLiveNext ==
    \/ HsLiveStep
    \/ HsCancel
    \/ SrvSilent

\* the goroutine runs whenever it can; nothing obliges the server to send
\* or the context to be cancelled
SpecHsLive == HsInit /\ [][HsLiveNext]_vars /\ WF_vars(HsLiveStep)

DirectReadPositions == {"sec_reason", "auth_challenge", "secres_reason"}

\* C29: once the context is done a pending handshake call returns, whether
\* or not the server sends anything further.
C29_CancelReturns ==
    (cancelled /\ returned = "pending") ~> (returned # "pending")

\* it does so from every position but the direct reads
CtxAwareReadsReturn ==
    (cancelled /\ returned = "pending")
        ~> (returned # "pending" \/ (ServerSilent /\ pc \in DirectReadPositions))

\* the context is done and the server silent while PasswordAuth.Handshake
\* waits for the challenge
C29_Witness ==
    /\ ServerSilent /\ cancelled /\ returned = "pending"
    /\ pc = "auth_challenge"
    /\ loc.auth.kind = "VNC Password"



\* the configuration holds a registry
UsesRegistry == ~cfg.nil /\ cfg.registry.present

\* the responses to a challenge written so far
Responses == {hsOut[i].v : i \in {j \in 1..Len(hsOut) : hsOut[j].kind = "response"}}

\* C30: with a registry configured, the method selected is of a registered
\* type and is the product of the registry's factory for that type, the
\* AuthExchange is carried out with that product, and a method of the auth
\* list whose type is not registered is never the one selected.
C30_RegistryOverrides ==
    UsesRegistry /\ loc.auth # NoAuth =>
        /\ IsSupported(cfg.registry.reg, SecurityType(loc.auth))
        /\ loc.auth = CreateAuth(cfg.registry.reg, SecurityType(loc.auth))
        /\ Responses \subseteq {loc.auth.pw}
        /\ \A i \in 1..Len(cfg.auth.list) :
              ~IsSupported(cfg.registry.reg, SecurityType(cfg.auth.list[i]))
                  => loc.auth # cfg.auth.list[i]

\* the list prefers a PasswordAuth, whose type is not registered, to None;
\* the server offers both types; type 1 was written and the AuthExchange
\* made with the registry's ClientAuthNone
C30_Witness ==
    /\ UsesRegistry
    /\ cfg.auth = ListOf(<<PwM("secret"), NoneM>>)
    /\ cfg.registry.reg = {NoneM}
    /\ loc.auth = NoneM
    /\ pc = "secres"
    /\ Responses = {}
    /\ hsOut[Len(hsOut)] = [kind |-> "u8", v |-> 1]

\* the list holds a PasswordAuth with a password and the registry makes its
\* own, with none: the registry's is the one selected, and it is refused
FactoryProductSelected ==
    /\ UsesRegistry
    /\ cfg.auth = ListOf(<<PwM("secret")>>)
    /\ cfg.registry.reg = NewAuthRegistry
    /\ loc.auth = PwM("")
    /\ pc = "failed" /\ hsErr = <<"Authentication", "Validation">>



(***************************************************************************)
(* SpecDes: SecureDESCipher.EncryptVNCChallenge applied to two passwords   *)
(* and one challenge.  A password is the byte sequence of the Go string.   *)
(* crypto/des is not part of the repository: a block it encrypts is the    *)
(* term of the 56 key bits DES uses (it ignores the low bit of every key   *)
(* byte) and the plain block.                                              *)
(***************************************************************************)
VNCChallengeSize == 16
DESKeySize == 8
VNCMaxPasswordLength == 8
MaxPwLen == 10

\* reverseBitsSecure: the lookup table holds the byte with its bits in
\* reverse order
RECURSIVE ReverseBits(_, _)
ReverseBits(b, width) ==
    IF width = 0 THEN 0
    ELSE (b % 2) * Pow2(width - 1) + ReverseBits(b \div 2, width - 1)

reverseBitsSecure(b) == ReverseBits(b, 8)

\* the key built from every byte of the password, however long
keyBytesWholePassword(passwordBytes) ==
    [i \in 1..Len(passwordBytes) |-> reverseBitsSecure(passwordBytes[i])]

\* keyBytes as the loop of 1597-1607 fills it
keyBytes(passwordBytes) ==
    LET keyLen == IF Len(passwordBytes) > VNCMaxPasswordLength
                  THEN VNCMaxPasswordLength ELSE Len(passwordBytes)
    IN [i \in 1..DESKeySize |->
           IF i <= keyLen THEN reverseBitsSecure(passwordBytes[i]) ELSE 0]

\* des.NewCipher(key) and block.Encrypt(dst, src)
desEncrypt(key, src) ==
    <<"des", [i \in 1..Len(key) |-> key[i] \div 2], src>>

\* EncryptVNCChallenge: [err, blocks], the result being the two encrypted
\* halves of the challenge one after the other
EncryptVNCChallenge(password, challenge) ==
    IF Len(challenge) # VNCChallengeSize
    THEN [err |-> <<"Validation">>, blocks |-> <<>>]
    ELSE [err |-> NoErr,
          blocks |-> <<desEncrypt(keyBytes(password),
                                  SubSeq(challenge, 1, DESKeySize)),
                       desEncrypt(keyBytes(password),
                                  SubSeq(challenge, DESKeySize + 1, VNCChallengeSize))>>]

\* the passwords tried: none, one byte, and those of 7 to MaxPwLen bytes
\* that begin with six bytes "a"
DesPwBytes == {97, 98}
DesPasswords ==
    {<<>>} \cup [1..1 -> DesPwBytes] \cup
    UNION {{[i \in 1..6 |-> 97] \o t : t \in [1..(n - 6) -> DesPwBytes]} :
              n \in 7..MaxPwLen}

DesChallenges ==
    {[i \in 1..VNCChallengeSize |-> i], [i \in 1..VNCChallengeSize |-> 255 - i],
     [i \in 1..DESKeySize |-> i]}

DesChosen(p, q, challenge) ==
    [op |-> "chosen", p |-> p, q |-> q, challenge |-> challenge,
     rp |-> NoResult, rq |-> NoResult]

DesInit ==
    /\ FxBase /\ ColorMap = ZeroColorMap
    /\ \E p \in DesPasswords, q \in DesPasswords, challenge \in DesChallenges :
          fx = DesChosen(p, q, challenge)

\* cipher.EncryptVNCChallenge(p, challenge)
DesFirst ==
    /\ fx.op = "chosen"
    /\ fx' = [fx EXCEPT !.op = "first",
                        !.rp = EncryptVNCChallenge(fx.p, fx.challenge)]
    /\ UNCHANGED FxRest

\* cipher.EncryptVNCChallenge(q, challenge)
DesSecond ==
    /\ fx.op = "first"
    /\ fx' = [fx EXCEPT !.op = "second",
                        !.rq = EncryptVNCChallenge(fx.q, fx.challenge)]
    /\ UNCHANGED FxRest

\* the same passwords with another challenge
DesAgain ==
    /\ fx.op = "second"
    /\ \E challenge \in DesChallenges \ {fx.challenge} :
          fx' = DesChosen(fx.p, fx.q, challenge)
    /\ UNCHANGED FxRest

DesNext == DesFirst \/ DesSecond \/ DesAgain

SpecDes == DesInit /\ [][DesNext]_vars

\* the first 8 bytes of a password, or all of it when it is shorter
First8(password) ==
    SubSeq(password, 1, IF Len(password) > 8 THEN 8 ELSE Len(password))

\* C31: two passwords with the same first 8 bytes give the same response to
\* the same challenge, and the response to a 16-byte challenge is made of
\* nothing but those bytes and the challenge.
C31_FirstEightBytes ==
    fx.op = "second" =>
        /\ First8(fx.p) = First8(fx.q) => fx.rp = fx.rq
        /\ fx.rp = EncryptVNCChallenge(First8(fx.p), fx.challenge)
        /\ Len(fx.challenge) = VNCChallengeSize =>
              fx.rp.err = NoErr /\ Len(fx.rp.blocks) = 2

\* a password of 10 bytes and one of 8, equal up to the eighth byte, have
\* answered a 16-byte challenge
C31_Witness ==
    /\ fx.op = "second"
    /\ Len(fx.p) = 10 /\ Len(fx.q) = 8 /\ First8(fx.p) = fx.q
    /\ fx.p[8] = 98
    /\ Len(fx.challenge) = VNCChallengeSize
    /\ fx.rp.err = NoErr /\ fx.rp = fx.rq



(***************************************************************************)
(* SpecPtr: PointerEvent calls on a session whose dimensions the reader    *)
(* task changes when a DesktopSize rectangle arrives.                      *)
(***************************************************************************)
PtrCoords == {0, 1, 3, 4, 5, 6, 65535}
PtrMasks  == {0, 1}
PtrSizes  == {<<4, 4>>, <<2, 6>>, <<6, 2>>, <<0, 5>>, <<1, 32767>>}

PtrInit ==
    /\ FxBase /\ ColorMap = ZeroColorMap
    /\ fx = [op |-> "idle"]

\* FramebufferUpdateMessage.Read decodes a DesktopSize rectangle and its
\* Handle stores the new dimensions (server_messages.go 215-226, color.go
\* 441-447)
PtrDesktopSize ==
    /\ \E size \in PtrSizes :
          /\ EncRejects(-223, [w |-> size[1], h |-> size[2]]) = NoErr
          /\ fbW' = size[1]
          /\ fbH' = size[2]
    /\ UNCHANGED <<hsVars, pixelFormat, desktopName, connVars, neg, inVars, fx,
                   rdVars, wrVars>>

\* PointerEvent(mask, x, y) up to the buffer it hands to writeWithContext:
\* width and height are what GetFrameBufferSize returns
PtrCall ==
    /\ fx.op = "idle"
    /\ \E mask \in PtrMasks, x \in PtrCoords, y \in PtrCoords :
          LET call == Call("PointerEvent", <<mask, x, y>>, ZeroPF, <<>>)
          IN fx' = [op |-> "called", call |-> call, width |-> fbW,
                    height |-> fbH, err |-> Validate(call),
                    buf |-> IF Validate(call) = NoErr THEN Frame(call) ELSE <<>>]
    /\ UNCHANGED FxRest

\* the call has returned
PtrReturn ==
    /\ fx.op = "called"
    /\ fx' = [op |-> "idle"]
    /\ UNCHANGED FxRest

PtrNext == PtrDesktopSize \/ PtrCall \/ PtrReturn

SpecPtr == PtrInit /\ [][PtrNext]_vars

\* C32: a PointerEvent passes validation exactly when x is below the width
\* and y below the height the session has at the call, whatever they were
\* at ServerInit; when it does not, the error is of the Validation category
\* and nothing is built to be written.
C32_PointerInsideCurrent ==
    fx.op = "called" =>
        /\ fx.err = NoErr <=> (fx.call.n[2] < fx.width /\ fx.call.n[3] < fx.height)
        /\ fx.err # NoErr => GetErrorCode(fx.err) = "Validation" /\ fx.buf = <<>>
        /\ fx.err = NoErr => Len(fx.buf) = 6

\* after a DesktopSize to 6x2 a pointer at (5, 1), outside the 4x4 of
\* ServerInit, is accepted
C32_Witness ==
    /\ fx.op = "called"
    /\ loc.w = 4 /\ loc.h = 4
    /\ fx.width = 6 /\ fx.height = 2
    /\ fx.call.n = <<1, 5, 1>>
    /\ fx.err = NoErr

\* and a pointer at (3, 3), inside the 4x4 of ServerInit, is then refused
PointerOutsideAfterResize ==
    /\ fx.op = "called"
    /\ fx.width = 6 /\ fx.height = 2
    /\ fx.call.n = <<0, 3, 3>>
    /\ fx.err = <<"Validation", "Validation">>



(***************************************************************************)
(* SpecEdge: the reader task of a session of 1920x1080 and a server that   *)
(* sends FramebufferUpdate messages of one CopyRect rectangle at and       *)
(* around the right and bottom edges.                                      *)
(***************************************************************************)
EdgeFbWidth  == 1920
EdgeFbHeight == 1080
EdgeXs == {0, 1819, 1820, 1821, 1900}
EdgeYs == {0, 980, 981}
EdgeWs == {100, 101}

EdgeRect(x, y, w, h) == FramebufferUpdate(<<Rect(x, y, w, h, 1, <<0, 0, 0, 0>>)>>)
EdgeMsgs == {EdgeRect(x, y, w, 100) : x \in EdgeXs, y \in EdgeYs, w \in EdgeWs}

\* the session after ServerInit announced 1920x1080 and SetEncodings
\* configured CopyRect
EdgeInit ==
    /\ EstablishedAs(EdgeFbWidth, EdgeFbHeight)
    /\ rdPc = "top" /\ rdMsg = NoMsg /\ nextId = 0 /\ parsed = <<>>
    /\ sink = "nil" /\ chanQ = <<>> /\ chClosed = FALSE /\ delivered = <<>>
    /\ exitCause = "none" /\ cancelMark = -1 /\ exitMark = -1
    /\ ColorMap = ZeroColorMap
    /\ NegIdle /\ InIdle
    /\ wr = [w \in 1..MaxWrites |-> NoCall]
    /\ wireOut = <<>> /\ connWriter = 0
    /\ Encs = <<1>>

\* the server writes one of the messages
EdgeSend ==
    /\ ~connIn.eof
    /\ connIn.n < MaxSends
    /\ \E m \in EdgeMsgs :
          connIn' = [connIn EXCEPT !.sent = @ \o m, !.n = @ + 1]
    /\ UNCHANGED SrvRest

EdgeNext ==
    \/ EdgeSend
    \/ RdCheckCancel
    \/ MsgReadType
    \/ FbuReadHead
    \/ FbuReadRect
    \/ FbuReadEnc

SpecEdge == EdgeInit /\ [][EdgeNext]_vars

\* the first message the server wrote is m
FirstIs(m) ==
    Len(connIn.sent) >= Len(m) /\ SubSeq(connIn.sent, 1, Len(m)) = m

\* the reader has parsed a message or has left its loop
EdgeDecided == parsed # <<>> \/ rdPc = "exited"

\* C33 as stated: the rectangle (1900, 0, 100, 100) received at 1920x1080
\* is accepted.
C33_EdgeAccepted ==
    FirstIs(EdgeRect(1900, 0, 100, 100)) /\ EdgeDecided =>
        /\ parsed # <<>>
        /\ parsed[1].items[1].rect.x = 1900

\* C33: at 1920x1080 the rectangle (1900, 0, 100, 100), which ends at
\* column 2000, is refused and the reader leaves its loop with a Protocol
\* error; the rectangle (1820, 980, 100, 100), which ends on both edges, is
\* accepted; every rectangle accepted lies within the framebuffer.
C33_EdgeRejected ==
    /\ FirstIs(EdgeRect(1900, 0, 100, 100)) /\ EdgeDecided =>
          /\ parsed = <<>>
          /\ rdPc = "exited"
          /\ readErr = <<"Protocol", "Validation">>
    /\ FirstIs(EdgeRect(1820, 980, 100, 100)) /\ EdgeDecided =>
          /\ parsed # <<>>
          /\ parsed[1].items[1].rect =
                [x |-> 1820, y |-> 980, w |-> 100, h |-> 100, enc |-> 1]
    /\ \A i \in 1..Len(parsed) : \A j \in 1..Len(parsed[i].items) :
          LET r == parsed[i].items[j].rect
          IN r.x + r.w <= EdgeFbWidth /\ r.y + r.h <= EdgeFbHeight

\* the edge rectangle was parsed, then (1900, 0, 100, 100) came and ended
\* the reader
C33_Witness ==
    /\ connIn.sent = EdgeRect(1820, 980, 100, 100) \o EdgeRect(1900, 0, 100, 100)
    /\ Len(parsed) = 1
    /\ rdPc = "exited"
    /\ readErr = <<"Protocol", "Validation">>
    /\ fbW = EdgeFbWidth /\ fbH = EdgeFbHeight



(***************************************************************************)
(* SpecOpt: ClientWithOptions around a handshake that succeeds, and the    *)
(* reader task of the connection it returns.                               *)
(***************************************************************************)
ConnectTimeouts == {0, 2}

OptInit ==
    /\ Established
    /\ RdIdle /\ NegIdle /\ WrIdle
    /\ connIn = NoInput /\ readErr = NoErr
    /\ \E timeout \in ConnectTimeouts :
          fx = [op |-> "ClientWithOptions", ConnectTimeout |-> timeout,
                at |-> "handshake", callerCancel |-> FALSE, closeCalled |-> FALSE]

OptKeeps == <<hsVars, sessVars, neg, inVars, rdMsg, nextId, parsed, sink, chanQ,
              chClosed, delivered, exitCause, exitMark, ColorMap, wrVars>>

\* handshakeWithContext returned nil: ClientWithContext starts the reader
\* and returns the connection to ClientWithOptions (client.go 251-253)
OptConnected ==
    /\ fx.at = "handshake"
    /\ ~cancelled
    /\ rdPc' = "top"
    /\ fx' = [fx EXCEPT !.at = "deferred"]
    /\ UNCHANGED <<OptKeeps, connVars, cancelMark>>

\* ClientWithOptions returns: with a connect timeout its deferred cancel()
\* runs, and it cancels the context c.ctx was derived from (322-329, 236)
OptReturn ==
    /\ fx.at = "deferred"
    /\ IF fx.ConnectTimeout > 0 THEN CancelCtx
       ELSE UNCHANGED <<cancelled, cancelMark>>
    /\ fx' = [fx EXCEPT !.at = "returned"]
    /\ UNCHANGED <<OptKeeps, rdPc, connClosed>>

\* the context the caller gave is cancelled
OptCallerCancel ==
    /\ ~fx.callerCancel
    /\ CancelCtx
    /\ fx' = [fx EXCEPT !.callerCancel = TRUE]
    /\ UNCHANGED <<OptKeeps, rdPc, connClosed>>

\* the caller calls Close on the connection it was given (356-364)
OptClose ==
    /\ fx.at = "returned"
    /\ ~fx.closeCalled
    /\ CancelCtx
    /\ connClosed' = TRUE
    /\ fx' = [fx EXCEPT !.closeCalled = TRUE]
    /\ UNCHANGED <<OptKeeps, rdPc>>

OptNext ==
    \/ OptConnected
    \/ OptReturn
    \/ OptCallerCancel
    \/ OptClose
    \/ RdCheckCancel
    \/ RdReadType
    \/ RdParse

SpecOpt == OptInit /\ [][OptNext]_vars

\* the caller has the connection and has neither cancelled its context nor
\* called Close, and no read from the stream has failed
Undisturbed ==
    /\ fx.at = "returned"
    /\ ~fx.callerCancel /\ ~fx.closeCalled
    /\ exitCause \in {"none", "cancelled"}

\* C34: a connection returned by ClientWithOptions with a connect timeout
\* keeps its context live and its reader running for as long as the caller
\* does not cancel, the stream does not fail and Close is not called.
C34_StaysRunning ==
    Undisturbed /\ fx.ConnectTimeout > 0 =>
        ~cancelled /\ ~connClosed /\ rdPc # "exited"

\* without a connect timeout it does
StaysRunningWithoutTimeout ==
    Undisturbed /\ fx.ConnectTimeout = 0 =>
        ~cancelled /\ ~connClosed /\ rdPc # "exited"

\* with a connect timeout the context is done from the return on
DoneOnReturn ==
    fx.at = "returned" /\ fx.ConnectTimeout > 0 => cancelled

\* returned with a connect timeout, nothing done by the caller, no message
\* sent by the server: the reader has left its loop on the done context and
\* closed the connection
C34_Witness ==
    /\ Undisturbed /\ fx.ConnectTimeout > 0
    /\ nextId = 0
    /\ rdPc = "exited" /\ exitCause = "cancelled"
    /\ cancelled /\ connClosed


(***************************************************************************)
(* SpecFmt: a caller of the client-message methods beside the reader, and  *)
(* a server that sends one-pixel Raw rectangles in the pixel format it     *)
(* holds: the format of ServerInit until a whole SetPixelFormat message    *)
(* has reached it, the format of that message afterwards.                  *)
(***************************************************************************)
\* the pixel format ServerInit announced
ServerInitFormat == PF(32, 24, FALSE, TRUE, 255, 255, 255, 16, 8, 0)

\* the whole SetPixelFormat message is on the wire
SetPixelFormatOnWire == Len(wireOut) >= 20 /\ wireOut[1].b = 0

\* bits-per-pixel as the server holds it: byte 5 of the SetPixelFormat
\* message once it has arrived
ServerBPP == IF SetPixelFormatOnWire THEN wireOut[5].b ELSE ServerInitFormat.BPP

\* a FramebufferUpdate of one Raw rectangle of one pixel, bpp bits wide
FmtRect(bpp) ==
    FramebufferUpdate(<<Rect(0, 0, 1, 1, 0, [i \in 1..(bpp \div 8) |-> 7])>>)

FmtInit ==
    /\ Established
    /\ rdPc = "top" /\ rdMsg = NoMsg /\ nextId = 0 /\ parsed = <<>>
    /\ sink = "nil" /\ chanQ = <<>> /\ chClosed = FALSE /\ delivered = <<>>
    /\ exitCause = "none" /\ cancelMark = -1 /\ exitMark = -1
    /\ ColorMap = ZeroColorMap
    /\ NegIdle /\ WrIdle /\ InIdle

\* the server writes a rectangle in the format it holds
FmtSend ==
    /\ ~connIn.eof
    /\ connIn.n < MaxSends
    /\ connIn' = [connIn EXCEPT !.sent = @ \o FmtRect(ServerBPP), !.n = @ + 1]
    /\ UNCHANGED SrvRest

FmtNext ==
    \/ WrCall(1)
    \/ WrAcquire(1)
    \/ WrBytes(1)
    \/ WrReturn(1)
    \/ FmtSend
    \/ RdCheckCancel
    \/ MsgReadType
    \/ FbuReadHead
    \/ FbuReadRect
    \/ FbuReadEnc

SpecFmt == FmtInit /\ [][FmtNext]_vars

\* SetPixelFormat has returned nil to caller w
SetPixelFormatSucceeded(w) ==
    /\ wr[w].pc = "returned" /\ wr[w].ret = "ok"
    /\ wr[w].call.method = "SetPixelFormat"

\* the pixels RawEncoding.Read takes for a rectangle of one pixel
RawPixelBytes == EncNeed(0, [x |-> 0, y |-> 0, w |-> 1, h |-> 1, enc |-> 0])

\* C35 as stated: once SetPixelFormat(f) has returned nil the session's pixel
\* format is f, and a Raw rectangle is decoded with f's bytes per pixel.
C35_DecodedWithNewFormat ==
    SetPixelFormatSucceeded(1) =>
        /\ pixelFormat = wr[1].call.format
        /\ RawPixelBytes = wr[1].call.format.BPP \div 8

\* no step of a session changes the pixel format ServerInit announced
SessionFormatKept == pixelFormat = ServerInitFormat

\* SetPixelFormat with the 16-bit format returned nil, the server then sent
\* one pixel of two bytes, and the reader, still holding the 32-bit format of
\* ServerInit, stands in RawEncoding.Read waiting for four
C35_Witness ==
    /\ SetPixelFormatSucceeded(1)
    /\ wr[1].call.format.BPP = 16
    /\ connIn.sent = FmtRect(16)
    /\ pixelFormat = ServerInitFormat
    /\ rdPc = "enc" /\ rdMsg.rect.enc = 0
    /\ Avail = 2 /\ RawPixelBytes = 4


(***************************************************************************)
(* The registry of NewAuthRegistry and a caller's password (SpecHs).       *)
(***************************************************************************)
\* the configuration holds the registry NewAuthRegistry returns and an auth
\* list of one PasswordAuth with a password, and the server offered
\* security type 2 alone
DefaultRegistryWithPassword ==
    /\ UsesRegistry
    /\ cfg.registry.reg = NewAuthRegistry
    /\ cfg.auth = ListOf(<<PwM("secret")>>)
    /\ loc.secTypes = <<2>>

\* C36 as stated: on the registry path the caller's password is the one the
\* handshake uses: the method selected is the caller's PasswordAuth and the
\* registry's validation does not refuse it.
C36_RegistryUsesCallerPassword ==
    DefaultRegistryWithPassword =>
        /\ loc.auth = PwM("secret")
        /\ hsErr # <<"Authentication", "Validation">>

\* with that configuration no handshake goes beyond the selection: nothing
\* answers a challenge and Running is never reached
DefaultRegistryNeverRuns ==
    DefaultRegistryWithPassword =>
        /\ pc # "running"
        /\ \A i \in 1..Len(visited) : visited[i] \in {"ProtoVersion", "Security"}
        /\ Responses = {}

\* the server offered type 2 alone, the factory's PasswordAuth{} was selected
\* in place of the caller's, type 2 was sent, and ValidateAuthMethod ended the
\* handshake
C36_Witness ==
    /\ DefaultRegistryWithPassword
    /\ loc.auth = PwM("")
    /\ hsOut[Len(hsOut)] = [kind |-> "u8", v |-> 2]
    /\ pc = "failed" /\ hsErr = <<"Authentication", "Validation">>
    /\ visited = <<"ProtoVersion", "Security">>


(***************************************************************************)
(* The length field of ClientCutText (SpecWrite).                          *)
(***************************************************************************)
\* the u32 at bytes 5..8 of the frame caller w put on the wire
CutTextLengthField(w) ==
    LET b == WireBytes(w)
    IN ((b[5] * 256 + b[6]) * 256 + b[7]) * 256 + b[8]

\* the bytes of caller w's frame after the length field
CutTextPayload(w) == SubSeq(WireBytes(w), 9, Len(WireBytes(w)))

\* CutText has returned nil to caller w
CutTextSucceeded(w) == wr[w].ret = "ok" /\ wr[w].call.method = "CutText"

\* C37 as stated: for every CutText that returned nil the length field is the
\* number of bytes that follow it, and those are the characters of the text,
\* one byte each, with nothing after them.
C37_LengthIsCharCount ==
    \A w \in Callers :
        CutTextSucceeded(w) =>
            /\ CutTextLengthField(w) = Len(CutTextPayload(w))
            /\ Len(CutTextPayload(w)) = Len(wr[w].call.text)
            /\ \A i \in 1..Len(wr[w].call.text) :
                  CutTextPayload(w)[i] = CodePoint(wr[w].call.text[i])

\* the length field is the length of the Go string in bytes and that many
\* bytes follow it: the characters, one byte each, then zero bytes
LengthIsStringLength ==
    \A w \in Callers :
        CutTextSucceeded(w) =>
            /\ CutTextLengthField(w) = StrLen(wr[w].call.text)
            /\ Len(CutTextPayload(w)) = StrLen(wr[w].call.text)
            /\ \A i \in 1..Len(CutTextPayload(w)) :
                  CutTextPayload(w)[i] =
                     IF i <= Len(wr[w].call.text)
                     THEN CodePoint(wr[w].call.text[i]) ELSE 0

\* CutText of the one character U+00E9 returned nil: the length field says
\* 2, and after the byte of the character comes a zero byte
C37_Witness ==
    /\ CutTextSucceeded(1)
    /\ wr[1].call.text = <<"U+00E9">>
    /\ CutTextLengthField(1) = 2
    /\ CutTextPayload(1) = <<233, 0>>


(***************************************************************************)
(* SpecCut: the reader beside a server that sends ServerCutText messages,  *)
(* empty ones among them, and Bell.                                        *)
(***************************************************************************)
\* a ServerCutText message as ServerCutTextMessage.Read takes it from the
\* stream: the type, one byte of padding, the length, the text
ServerCutTextAsRead(text) == <<3, 0>> \o U32(Len(text)) \o text

\* the empty clipboard, with three bytes of padding and with the one byte
\* Read takes
EmptyClipboards == {ServerCutText(<<>>), ServerCutTextAsRead(<<>>)}

CutMsgs == EmptyClipboards \cup {ServerCutTextAsRead(<<100>>), Bell}

\* the server writes one of the messages
CutSend ==
    /\ ~connIn.eof
    /\ connIn.n < MaxSends
    /\ \E m \in CutMsgs :
          connIn' = [connIn EXCEPT !.sent = @ \o m, !.n = @ + 1]
    /\ UNCHANGED SrvRest

CutNext ==
    \/ CutSend
    \/ RdCheckCancel
    \/ MsgReadType
    \/ CtReadHead
    \/ CtReadText
    \/ RdSend
    \/ RdReceive

SpecCut == MsgInit /\ [][CutNext]_vars

\* C38 as stated: a ServerCutText of length 0 is parsed as a message of empty
\* text, handed to the sink when there is one, and the reader is back in its
\* loop at the byte after the message.
C38_EmptyClipboardDelivered ==
    \A m \in EmptyClipboards :
        FirstIs(m) /\ EdgeDecided =>
            /\ parsed # <<>>
            /\ parsed[1].type = 3 /\ parsed[1].items = <<>>
            /\ exitCause # "decodeError"
            /\ sink = "chan" /\ rdPc # "send" => delivered # <<>>

\* a ServerCutText of length 0 ends the reader: Read returns a Protocol
\* error at the length, nothing is parsed or delivered, and the stream is
\* closed with the bytes after the length unread
EmptyClipboardEndsReader ==
    \A m \in EmptyClipboards :
        FirstIs(m) /\ EdgeDecided =>
            /\ parsed = <<>> /\ delivered = <<>>
            /\ rdPc = "exited" /\ exitCause = "decodeError"
            /\ readErr = <<"Protocol", "Validation">>
            /\ connClosed
            /\ connIn.pos = 6

\* the server sent an empty clipboard and a Bell; the reader left its loop at
\* the length of the first, with a channel as sink and nothing delivered
C38_Witness ==
    /\ connIn.sent = ServerCutTextAsRead(<<>>) \o Bell
    /\ sink = "chan" /\ delivered = <<>> /\ parsed = <<>>
    /\ rdPc = "exited" /\ exitCause = "decodeError"
    /\ readErr = <<"Protocol", "Validation">>
    /\ connIn.pos = 6 /\ connClosed

\* a ServerCutText of one byte was parsed and delivered, and the reader is
\* back at the top of its loop
NonEmptyClipboardDelivered ==
    /\ connIn.sent = ServerCutTextAsRead(<<100>>)
    /\ sink = "chan" /\ Len(delivered) = 1 /\ delivered[1].type = 3
    /\ rdPc \in {"top", "readType"} /\ connIn.pos = 7


(***************************************************************************)
(* The empty desktop name (SpecHs).                                        *)
(***************************************************************************)
\* ServerInit was read as far as the name length, with dimensions and a
\* pixel format that validate, and the name length read is 0
ServerInitWithEmptyName ==
    /\ visited[Len(visited)] \in {"ServerInit", "Running"}
    /\ pc \notin {"si_dims", "si_pf", "si_namelen"}
    /\ hsWhy \notin {"io", "ctx", "dims", "pf"}
    /\ loc.nameLen = 0

\* C39 as stated: a ServerInit with valid dimensions and pixel format and a
\* name length of 0 does not fail the handshake: the name is read as the
\* empty text and the handshake goes on to Running.
C39_EmptyNameCompletes ==
    ServerInitWithEmptyName =>
        /\ pc \in {"si_name", "hs_ok", "running"}
        /\ hsErr = NoErr
        /\ desktopName = <<>>

\* a ServerInit with the name length 0 ends the handshake with a Protocol
\* error at the length; Running is reached only with a name of one byte or
\* more
EmptyNameFails ==
    /\ ServerInitWithEmptyName =>
          /\ pc = "failed" /\ hsWhy = "namelen"
          /\ hsErr = <<"Protocol", "Validation">>
          /\ returned = "nil" /\ connClosed
    /\ pc = "running" => loc.nameLen > 0 /\ Len(desktopName) = loc.nameLen

\* the server announced 4x4 or the like with a valid pixel format and the
\* name length 0, and ClientWithContext returned the Protocol error
C39_Witness ==
    /\ ServerInitWithEmptyName
    /\ ValidateFramebufferDimensions(loc.w, loc.h)
    /\ fbW = loc.w /\ fbH = loc.h
    /\ ValidatePixelFormat(pixelFormat)
    /\ pc = "failed" /\ hsWhy = "namelen"
    /\ hsErr = <<"Protocol", "Validation">>
    /\ visited[Len(visited)] = "ServerInit"
    /\ returned = "nil"


(***************************************************************************)
(* Completeness of the pixel-format validation (SpecHs).                   *)
(***************************************************************************)
\* the rules for a pixel format: bits per pixel 8, 16 or 32, depth from 1 to
\* the bits per pixel and, for true colour, the invariants above
PixelFormatRules(pf) ==
    /\ pf.BPP \in {8, 16, 32}
    /\ pf.Depth >= 1 /\ pf.Depth <= pf.BPP
    /\ pf.TrueColor => TrueColorInvariants(pf)

\* formats at and around the largest shift of each width
ShiftCandidates ==
    {PF(bpp, depth, FALSE, tc, m[1], m[2], m[3], bpp - d, m[4], m[5]) :
        bpp \in {8, 16, 32}, depth \in {3, 8}, tc \in BOOLEAN, d \in {0, 1, 2},
        m \in {<<1, 1, 1, 1, 0>>, <<7, 7, 3, 3, 0>>, <<1, 0, 1, 1, 0>>}}

\* SetPixelFormat does not reject pf
SetPixelFormatAccepts(pf) ==
    Validate(Call("SetPixelFormat", <<>>, pf, <<>>)) = NoErr

\* the handshake ended at the validation of the pixel format of ServerInit
ServerInitFormatRefused == pc = "failed" /\ hsWhy = "pf"

\* C40 as stated: a pixel format that satisfies the rules is refused neither
\* in ServerInit nor by SetPixelFormat on a connection the handshake returned.
C40_ValidationComplete ==
    /\ ServerInitFormatRefused => ~PixelFormatRules(pixelFormat)
    /\ returned = "conn" =>
          \A pf \in ShiftCandidates \cup PfDomain :
              PixelFormatRules(pf) => SetPixelFormatAccepts(pf)

\* the true-colour formats refused though they satisfy the rules are those
\* with a shift of the bits per pixel less one
LargestShift(pf) ==
    pf.TrueColor /\ pf.BPP - 1 \in {pf.RedShift, pf.GreenShift, pf.BlueShift}

CompleteBelowLargestShift ==
    /\ ServerInitFormatRefused =>
          ~PixelFormatRules(pixelFormat) \/ LargestShift(pixelFormat)
    /\ returned = "conn" =>
          \A pf \in ShiftCandidates \cup PfDomain :
              /\ (PixelFormatRules(pf) /\ ~LargestShift(pf)) =>
                    SetPixelFormatAccepts(pf)
              /\ LargestShift(pf) => ~SetPixelFormatAccepts(pf)

\* ServerInit carried 32 bits per pixel, depth 24, maxima 255 and the red
\* shift 31: the format satisfies the rules and the handshake ended at its
\* validation; SetPixelFormat refuses a format of 8 bits with its red bit at
\* shift 7
C40_Witness ==
    /\ ServerInitFormatRefused
    /\ hsErr = <<"Protocol", "Validation">>
    /\ pixelFormat = PF(32, 24, FALSE, TRUE, 255, 255, 255, 31, 8, 0)
    /\ PixelFormatRules(pixelFormat)
    /\ PixelFormatRules(PF(8, 3, FALSE, TRUE, 1, 1, 1, 7, 1, 0))
    /\ ~SetPixelFormatAccepts(PF(8, 3, FALSE, TRUE, 1, 1, 1, 7, 1, 0))
====
